---- MODULE Spec2Model ----
(***************************************************************************)
(* A model of the text-to-catalog pipeline of mesatools:                   *)
(*   mesatools/fortran.py   full_line, full_lines (line reassembly)        *)
(*   mesatools/database.py  dtype_and_value, generate_language_data        *)
(*                                                                         *)
(* A Python str is modelled as a sequence of one-character strings, so     *)
(* that trimming, searching, splitting and substitution are computed       *)
(* character by character, as the library routines the code calls do.      *)
(* A Python list index i (0-based) is the model's index i + 1.             *)
(***************************************************************************)
EXTENDS Integers, Sequences, FiniteSets, TLC

VARIABLES
    pc,             \* position of the running routine
    lines,          \* the list of physical lines handed to full_line(s)
    i,              \* full_lines: index of the next physical line (1-based)
    res,            \* full_lines: the logical lines built so far
    ret,            \* what the last call of full_line returned or raised
    val_string,     \* dtype_and_value: its argument
    dv,             \* dtype_and_value: what it returned or raised
    namelist,       \* generate_language_data: the group being processed
    namelist_data,  \* generate_language_data: the records built so far
    code_lines,     \* declaration parser: code_lines of lines 278-281
    assignment_lines, \* declaration parser: the lines kept by lines 283-290
    pair,           \* declaration parser: index of the next pair of line 298
    this_type,      \* declaration parser: the text before '::' of the pair
    names,          \* declaration parser: the text after '::' of the pair
    exc,            \* the exception that ended generate_language_data, or "none"
    fs,             \* the files under mesa_dir: their lines, or missing
    define_file,    \* index of the next file of define_files[namelist]
    lower_names,    \* defaults merger: lower_names of line 359
    order,          \* defaults merger: the counter of lines 364 and 399
    assign_name,    \* defaults merger: assign_name of line 380; get_doc_text: name
    doc,            \* what the last call of get_doc_text returned
    namelist_tuples, \* namelist_tuples of line 401, unbound until it is assigned
    start_data,     \* the record set a merge started from
    first_result,   \* the record set the first merge ended with
    run,            \* which merge over the same source is running
    db,             \* the database files and the table inlist_items
    cursor,         \* MesaDatabase.cursor / CLI_Instance.data: the sqlite cursor
    call            \* the last call made on the database interface

flVars == <<i, res, ret>>
dvVars == <<val_string, dv>>
declVars == <<namelist, namelist_data, code_lines, assignment_lines, pair,
              this_type, names, exc>>

genVars == <<fs, define_file, lower_names, order, assign_name, doc,
             namelist_tuples, start_data, first_result, run>>

dbVars == <<db, cursor, call>>

vars == <<pc, lines, flVars, dvVars, declVars, genVars, dbVars>>

(***************************************************************************)
(* Bounds of the model.                                                    *)
(***************************************************************************)
MaxLines == 3

(***************************************************************************)
(* Strings.                                                                *)
(***************************************************************************)
\* The characters str.strip / str.rstrip remove and the regex class \s matches.
Whitespace == {" ", "\t", "\n", "\r"}

RECURSIVE RStrip(_)
\* str.rstrip()
RStrip(s) ==
    IF Len(s) > 0 /\ s[Len(s)] \in Whitespace
    THEN RStrip(SubSeq(s, 1, Len(s) - 1))
    ELSE s

RECURSIVE LStrip(_)
\* str.lstrip()
LStrip(s) ==
    IF Len(s) > 0 /\ s[1] \in Whitespace THEN LStrip(Tail(s)) ELSE s

\* str.strip()
Strip(s) == LStrip(RStrip(s))

RECURSIVE SkipSpace(_, _)
\* the first position >= p of s that holds no whitespace (Len(s) + 1 if none)
SkipSpace(s, p) ==
    IF p <= Len(s) /\ s[p] \in Whitespace THEN SkipSpace(s, p + 1) ELSE p

\* 'c in s' for a one-character c
HasChar(s, c) == \E p \in 1..Len(s) : s[p] = c

\* 'sub in s': sub occurs in s as a contiguous substring
HasSub(s, sub) ==
    \E p \in 1..(Len(s) - Len(sub) + 1) : SubSeq(s, p, p + Len(sub) - 1) = sub

\* s.startswith(pre)
StartsWith(s, pre) == Len(s) >= Len(pre) /\ SubSeq(s, 1, Len(pre)) = pre

\* s.index(c) as a 1-based position, for a c that occurs in s
IndexOf(s, c) == CHOOSE p \in 1..Len(s) : s[p] = c /\ \A q \in 1..(p - 1) : s[q] # c

\* s.count(c)
CountChar(s, c) == Cardinality({p \in 1..Len(s) : s[p] = c})

RECURSIVE SubAmpFrom(_, _)
\* re.sub('\s*&\s*', ' ', s), scanning from position p: a match starts at p when
\* the whitespace run at p is followed by '&'; it takes the '&' and the
\* whitespace run after it. Otherwise the character at p is copied.
SubAmpFrom(s, p) ==
    IF p > Len(s) THEN <<>>
    ELSE LET a == SkipSpace(s, p)
         IN IF a <= Len(s) /\ s[a] = "&"
            THEN <<" ">> \o SubAmpFrom(s, SkipSpace(s, a + 1))
            ELSE <<s[p]>> \o SubAmpFrom(s, p + 1)

\* re.sub('\s*&\s*', ' ', s)
SubAmp(s) == SubAmpFrom(s, 1)

(***************************************************************************)
(* fortran.py                                                              *)
(***************************************************************************)
\* is_comment: re.match('\A\s*!', line)
is_comment(line) ==
    LET p == SkipSpace(line, 1) IN p <= Len(line) /\ line[p] = "!"

\* is_blank: re.match('\A\s*\Z', line)
is_blank(line) == SkipSpace(line, 1) > Len(line)

\* The test of line 80 negated: the line ends, after rstrip, with '&'.
EndsWithAmp(line) ==
    LET r == RStrip(line) IN Len(r) > 0 /\ r[Len(r)] = "&"

\* What a call returns: raised is "none" or the exception's name; shape tells
\* which Python value came back: "pair" (str, int), "str" or "int".
NoReturn == [raised |-> "none", shape |-> "none", line |-> <<>>, count |-> 0]
Raise(e) == [raised |-> e, shape |-> "none", line |-> <<>>, count |-> 0]

RECURSIVE full_line(_, _, _, _, _)
\* full_line(lines, i, return_count, count, continued); lines[i] of a list
\* raises IndexError when i is past the end.
full_line(ls, k, return_count, count, continued) ==
    IF k > Len(ls) THEN Raise("IndexError")
    ELSE IF ~EndsWithAmp(ls[k])
    THEN LET res_line == IF continued THEN Strip(ls[k]) ELSE RStrip(ls[k])
         IN IF return_count
            THEN [raised |-> "none", shape |-> "pair", line |-> res_line, count |-> count]
            ELSE [raised |-> "none", shape |-> "int", line |-> <<>>, count |-> count]
    ELSE LET nxt == full_line(ls, k + 1, TRUE, count + 1, TRUE)
             this_line == SubAmp(RStrip(ls[k]))
         IN IF nxt.raised # "none" THEN nxt
            ELSE IF return_count
            THEN [raised |-> "none", shape |-> "pair",
                  line |-> this_line \o nxt.line, count |-> nxt.count]
            ELSE [raised |-> "none", shape |-> "str",
                  line |-> this_line \o nxt.line, count |-> 0]

\* filter(lambda line: not is_blank(line), res) and the same for comments
FilterLines(ls, include_blanks, include_comments) ==
    SelectSeq(ls, LAMBDA l : (include_blanks \/ ~is_blank(l))
                             /\ (include_comments \/ ~is_comment(l)))

\* line 142: i += di
Advance_ByOne(k, di) == k + 1

Advance(k, di) == k + di

RECURSIVE FullLinesFrom(_, _, _)
\* the while loop of full_lines (lines 138-142) from index k with result acc
FullLinesFrom(ls, k, acc) ==
    IF k > Len(ls) THEN [raised |-> "none", res |-> acc]
    ELSE LET r == full_line(ls, k, TRUE, 1, FALSE)
         IN IF r.raised # "none" THEN [raised |-> r.raised, res |-> acc]
            ELSE FullLinesFrom(ls, Advance(k, r.count), Append(acc, r.line))

\* full_lines(lines, include_blanks, include_comments) for a list of lines
full_lines(ls, include_blanks, include_comments) ==
    LET w == FullLinesFrom(ls, 1, <<>>)
    IN IF w.raised # "none" THEN w
       ELSE [raised |-> "none",
             res |-> FilterLines(w.res, include_blanks, include_comments)]

(***************************************************************************)
(* The line reassembler as a state machine: a list of physical lines is    *)
(* given; full_line is called on it at any index, and full_lines walks it. *)
(***************************************************************************)
\* Physical lines the files are built from.
LineSamples ==
    { <<"x", " ", "=", " ", "1", " ", "&">>,          \* "x = 1 &"
      <<"+", " ", "2">>,                              \* "+ 2"
      <<" ", " ", "b", " ", "&", "\n">>,              \* "  b &\n"
      <<" ", "c", " ">>,                              \* " c "
      <<"a", " ", "&", " ", "b", "&">>,               \* "a & b&"
      <<" ", "\n">>,                                  \* " \n"
      <<"!", " ", "c">> }                             \* "! c"

RECURSIVE SeqsUpTo(_, _)
\* the sequences over S of length 0..n
SeqsUpTo(S, n) ==
    IF n = 0 THEN {<<>>}
    ELSE LET shorter == SeqsUpTo(S, n - 1)
         IN shorter \cup {Append(s, x) : s \in {t \in shorter : Len(t) = n - 1}, x \in S}

\* the files of 1..MaxLines physical lines
LineFiles == SeqsUpTo(LineSamples, MaxLines) \ {<<>>}

\* The variables of the routines a specification does not run keep these values.
IdleFL ==
    /\ i = 1
    /\ res = <<>>
    /\ ret = NoReturn

IdleDV ==
    /\ val_string = <<>>
    /\ dv = <<>>

IdleDecl ==
    /\ namelist = ""
    /\ namelist_data = <<>>
    /\ code_lines = <<>>
    /\ assignment_lines = <<>>
    /\ pair = 1
    /\ this_type = <<>>
    /\ names = <<>>
    /\ exc = "none"

\* line 402 read before line 401 ever ran finds no namelist_tuples
Unbound == [bound |-> FALSE, tuples |-> <<>>]

\* no database file, no cursor (line 459), no call made
NoCursor == [connected |-> FALSE, executed |-> 0, pending |-> <<>>]

NoCall == [count |-> 0, op |-> "none", table |-> "", query |-> <<>>, terms |-> <<>>,
           name |-> <<>>, namelist |-> "None", raised |-> "none", result |-> <<>>]

IdleDb ==
    /\ db = [mesa_db |-> FALSE, inlist_commands_db |-> FALSE, debug |-> TRUE,
             inlist_items |-> <<>>]
    /\ cursor = NoCursor
    /\ call = NoCall

IdleGen ==
    /\ fs = <<>>
    /\ define_file = 1
    /\ lower_names = <<>>
    /\ order = 0
    /\ assign_name = <<>>
    /\ doc = <<>>
    /\ namelist_tuples = Unbound
    /\ start_data = <<>>
    /\ first_result = <<>>
    /\ run = 1

InitFL ==
    /\ pc = "start"
    /\ lines \in LineFiles
    /\ i = 1
    /\ res = <<>>
    /\ ret = NoReturn
    /\ IdleDV
    /\ IdleDecl
    /\ IdleGen
    /\ IdleDb

\* full_line(lines, k, return_count=rc) called by a client
CallFullLine ==
    /\ pc = "start"
    /\ \E k \in 1..Len(lines), rc \in BOOLEAN :
          /\ ret' = full_line(lines, k, rc, 1, FALSE)
          /\ i' = k
          /\ pc' = IF rc THEN "called_count" ELSE "called"
    /\ UNCHANGED <<dbVars, lines, res, dvVars, declVars, genVars>>

\* full_lines: one pass of the while loop of lines 139-142
FullLinesStep ==
    /\ pc \in {"start", "walk"}
    /\ i <= Len(lines)
    /\ LET r == full_line(lines, i, TRUE, 1, FALSE)
       IN /\ ret' = r
          /\ IF r.raised # "none"
             THEN /\ pc' = "raised"
                  /\ UNCHANGED <<i, res>>
             ELSE /\ pc' = "walk"
                  /\ res' = Append(res, r.line)
                  /\ i' = Advance(i, r.count)
    /\ UNCHANGED <<dbVars, lines, dvVars, declVars, genVars>>

\* full_lines: the loop ends, the filters of lines 145-148 run, res is returned
FullLinesReturn ==
    /\ pc = "walk"
    /\ i > Len(lines)
    /\ \E include_blanks \in BOOLEAN, include_comments \in BOOLEAN :
          res' = FilterLines(res, include_blanks, include_comments)
    /\ pc' = "returned"
    /\ UNCHANGED <<dbVars, lines, i, ret, dvVars, declVars, genVars>>

NextFL == CallFullLine \/ FullLinesStep \/ FullLinesReturn

SpecFL == InitFL /\ [][NextFL]_vars

(***************************************************************************)
(* C1, C2: full_line                                                       *)
(***************************************************************************)
\* The line with its trailing marker, and the whitespace around it, removed.
MarkerStripped(line) ==
    LET r == RStrip(line) IN RStrip(SubSeq(r, 1, Len(r) - 1))

RECURSIVE ClaimedJoin(_, _, _)
\* The logical line the claim describes, from physical line k: each piece has
\* its trailing marker stripped, a continuation piece (continued) is trimmed on
\* both sides as the docstring of `continued` says, and the pieces are joined
\* by exactly one space.
ClaimedJoin(ls, k, continued) ==
    IF EndsWithAmp(ls[k])
    THEN (IF continued THEN LStrip(MarkerStripped(ls[k])) ELSE MarkerStripped(ls[k]))
         \o <<" ">> \o ClaimedJoin(ls, k + 1, TRUE)
    ELSE IF continued THEN Strip(ls[k]) ELSE RStrip(ls[k])

RECURSIVE MarkedRun(_, _)
\* the number of consecutive lines from k on that end with the marker
MarkedRun(ls, k) ==
    IF k <= Len(ls) /\ EndsWithAmp(ls[k]) THEN 1 + MarkedRun(ls, k + 1) ELSE 0

\* C1: for lines i..i+k-1 ending with the marker and line i+k not ending with
\* it, full_line(lines, i, return_count=True) returns the k+1 pieces, markers
\* stripped, joined by exactly one space each, and the count k+1.
C1_JoinedByOneSpace ==
    (pc = "called_count" /\ i + MarkedRun(lines, i) <= Len(lines))
        => /\ ret.raised = "none"
           /\ ret.shape = "pair"
           /\ ret.count = MarkedRun(lines, i) + 1
           /\ ret.line = ClaimedJoin(lines, i, FALSE)

\* C2: when the last physical line ends with the marker, full_line and
\* full_lines fail with MalformedContinuationError and read no line past the
\* end (the model's full_line raises IndexError exactly when it reads
\* lines[k] for k past the end).
C2_MalformedContinuationError ==
    (pc \in {"called", "called_count", "raised"}
     /\ i + MarkedRun(lines, i) > Len(lines))
        => ret.raised = "MalformedContinuationError"

(***************************************************************************)
(* database.py: dtype_and_value                                            *)
(***************************************************************************)
\* str.lower() on one character (ASCII letters)
LowerChar(c) ==
    CASE c = "A" -> "a" [] c = "B" -> "b" [] c = "C" -> "c" [] c = "D" -> "d"
      [] c = "E" -> "e" [] c = "F" -> "f" [] c = "G" -> "g" [] c = "H" -> "h"
      [] c = "I" -> "i" [] c = "J" -> "j" [] c = "K" -> "k" [] c = "L" -> "l"
      [] c = "M" -> "m" [] c = "N" -> "n" [] c = "O" -> "o" [] c = "P" -> "p"
      [] c = "Q" -> "q" [] c = "R" -> "r" [] c = "S" -> "s" [] c = "T" -> "t"
      [] c = "U" -> "u" [] c = "V" -> "v" [] c = "W" -> "w" [] c = "X" -> "x"
      [] c = "Y" -> "y" [] c = "Z" -> "z" [] OTHER -> c

\* str.lower()
Lower(s) == [p \in 1..Len(s) |-> LowerChar(s[p])]

Digits == {"0", "1", "2", "3", "4", "5", "6", "7", "8", "9"}

DigitVal(c) ==
    CASE c = "0" -> 0 [] c = "1" -> 1 [] c = "2" -> 2 [] c = "3" -> 3
      [] c = "4" -> 4 [] c = "5" -> 5 [] c = "6" -> 6 [] c = "7" -> 7
      [] c = "8" -> 8 [] c = "9" -> 9

RECURSIVE DecimalValue(_)
\* the number a string of decimal digits denotes ("" counts 0)
DecimalValue(ds) ==
    IF Len(ds) = 0 THEN 0
    ELSE 10 * DecimalValue(SubSeq(ds, 1, Len(ds) - 1)) + DigitVal(ds[Len(ds)])

RECURSIVE SkipDigits(_, _)
\* the first position >= p of s that holds no digit (Len(s) + 1 if none)
SkipDigits(s, p) ==
    IF p <= Len(s) /\ s[p] \in Digits THEN SkipDigits(s, p + 1) ELSE p

\* What dtype_and_value comes to: dtype is the name lines 159-180 chose, and
\* raised is "none" when the cast of line 181 returned and the exception's
\* name when it raised. Only the field of the dtype is meaningful: b for bool,
\* s for str, n for int, and f for float, the pair <<m, e>> standing for the
\* number m * 10^e.
DvBool(b)  == [raised |-> "none", dtype |-> "bool", b |-> b, s |-> <<>>, n |-> 0, f |-> <<0, 0>>]
DvStr(s)   == [raised |-> "none", dtype |-> "str", b |-> FALSE, s |-> s, n |-> 0, f |-> <<0, 0>>]
DvInt(n)   == [raised |-> "none", dtype |-> "int", b |-> FALSE, s |-> <<>>, n |-> n, f |-> <<0, 0>>]
DvFloat(f) == [raised |-> "none", dtype |-> "float", b |-> FALSE, s |-> <<>>, n |-> 0, f |-> f]
DvRaise(dtype, e) == [raised |-> e, dtype |-> dtype, b |-> FALSE, s |-> <<>>, n |-> 0, f |-> <<0, 0>>]
DvNone     == [raised |-> "none", dtype |-> "none", b |-> FALSE, s |-> <<>>, n |-> 0, f |-> <<0, 0>>]

RECURSIVE Normal(_, _)
\* m * 10^e with the factors of ten moved out of m: equal numbers, equal pairs
Normal(m, e) ==
    IF m = 0 THEN <<0, 0>>
    ELSE IF m % 10 = 0 THEN Normal(m \div 10, e + 1)
    ELSE <<m, e>>

\* dtype_funcs['float'](s), line 181: float(s) for a str. Surrounding whitespace is dropped;
\* then [sign] (digits ['.' [digits]] | '.' digits) [('e'|'E') [sign] digits]
\* gives the number and anything else raises ValueError. The spellings inf,
\* infinity and nan hold none of the characters that lead to this call, and
\* '_' between digits is not in the model's alphabet. The number is kept
\* exact: rounding to a double and overflow to inf are not modelled.
float(s0) ==
    LET s == Strip(s0)
        n == Len(s)
        signed == n >= 1 /\ s[1] \in {"+", "-"}
        p1 == IF signed THEN 2 ELSE 1
        p2 == SkipDigits(s, p1)
        hasDot == p2 <= n /\ s[p2] = "."
        p3 == IF hasDot THEN SkipDigits(s, p2 + 1) ELSE p2
        intDigits == SubSeq(s, p1, p2 - 1)
        fracDigits == IF hasDot THEN SubSeq(s, p2 + 1, p3 - 1) ELSE <<>>
        hasExp == p3 <= n /\ s[p3] \in {"e", "E"}
        expSigned == hasExp /\ p3 + 1 <= n /\ s[p3 + 1] \in {"+", "-"}
        p4 == IF hasExp THEN (IF expSigned THEN p3 + 2 ELSE p3 + 1) ELSE p3
        p5 == IF hasExp THEN SkipDigits(s, p4) ELSE p3
        ok == /\ Len(intDigits) + Len(fracDigits) >= 1
              /\ hasExp => p5 > p4
              /\ p5 = n + 1
        mant == DecimalValue(intDigits \o fracDigits)
        ex == IF hasExp THEN DecimalValue(SubSeq(s, p4, p5 - 1)) ELSE 0
    IN IF ~ok THEN DvRaise("float", "ValueError")
       ELSE DvFloat(Normal(IF signed /\ s[1] = "-" THEN 0 - mant ELSE mant,
                           (IF expSigned /\ s[p3 + 1] = "-" THEN 0 - ex ELSE ex)
                               - Len(fracDigits)))

\* re.match('\A-?\d+\Z', s) of line 172 (ASCII digits)
IsIntLiteral_NoSign(s) ==
    Len(s) >= 1 /\ \A p \in 1..Len(s) : s[p] \in Digits

IsIntLiteral(s) ==
    LET p1 == IF Len(s) >= 1 /\ s[1] = "-" THEN 2 ELSE 1
    IN p1 <= Len(s) /\ \A p \in p1..Len(s) : s[p] \in Digits

\* int(s) for an s that line 172 let through
int(s) ==
    IF s[1] = "-" THEN 0 - DecimalValue(Tail(s)) ELSE DecimalValue(s)

dot_true == <<".", "t", "r", "u", "e", ".">>
dot_false == <<".", "f", "a", "l", "s", "e", ".">>

\* line 159: val_string.lower() in ['.true.', '.false.']
IsBoolLiteral_CaseSensitive(s) == s \in {dot_true, dot_false}

IsBoolLiteral(s) == Lower(s) \in {dot_true, dot_false}

\* line 165: "'" in val_string.lower()
HasQuote(s) == HasChar(Lower(s), "'")

\* lines 168-169: 'd', '.' or 'e' in val_string.lower()
LooksFloat(s) ==
    HasChar(Lower(s), "d") \/ HasChar(Lower(s), ".") \/ HasChar(Lower(s), "e")

\* line 171: val_string.lower().replace('d', 'e')
NormalizeExponent_Lost(s) == Lower(s)

NormalizeExponent(s) ==
    [p \in 1..Len(s) |-> IF Lower(s)[p] = "d" THEN "e" ELSE Lower(s)[p]]

\* dtype_and_value(val_string), lines 159-182
dtype_and_value(s) ==
    IF IsBoolLiteral(s) THEN DvBool(Lower(s) = dot_true)
    ELSE IF HasQuote(s) THEN DvStr(s)
    ELSE IF LooksFloat(s) THEN float(NormalizeExponent(s))
    ELSE IF IsIntLiteral(Lower(s)) THEN DvInt(int(s))
    ELSE DvStr(s)

(***************************************************************************)
(* The literal classifier applied to one literal.                          *)
(***************************************************************************)
MaxValLen == 3

\* the upper-case form of the letters of .true. and .false.
UpperChar(c) ==
    CASE c = "t" -> "T" [] c = "r" -> "R" [] c = "u" -> "U" [] c = "e" -> "E"
      [] c = "f" -> "F" [] c = "a" -> "A" [] c = "l" -> "L" [] c = "s" -> "S"
      [] OTHER -> c

RECURSIVE CaseSpellings(_)
\* every spelling of w in upper and lower case, w given in lower case
CaseSpellings(w) ==
    IF Len(w) = 0 THEN {<<>>}
    ELSE {<<c>> \o r : c \in {w[1], UpperChar(w[1])}, r \in CaseSpellings(Tail(w))}

ValAlphabet == {"0", "7", "-", ".", "d", "E", "'", "\"", "x"}

ValSamples ==
    { <<"-", "0", "0", "7">>,                         \* -007
      <<"1", ".", "5", "D", "3">>,                    \* 1.5D3
      <<"1", ".", "5", "E", "3">>,                    \* 1.5E3
      <<"1", ".", "5", "e", "3">>,                    \* 1.5e3
      <<"1", "5", "0", "0", ".">>,                    \* 1500.
      <<"2", ".", "0", "d", "0">>,                    \* 2.0d0
      <<"1", "d", "-", "0", "5">>,                    \* 1d-05
      <<"'", "3", ".", "1", "4", "'">>,               \* '3.14'
      <<"\"", "3", ".", "1", "4", "\"">>,             \* "3.14"
      <<"'", "d", "e", "'">>,                         \* 'de'
      <<"\"", "x", "\"">>,                            \* "x"
      <<"d", "e", "a", "d">>,                         \* dead
      <<" ", "1", ".", "5", "\n">>,                   \* a literal not trimmed
      <<".", "t", "r", "u", "e">>,                    \* .true
      <<".", "t", "r", "u", "d", ".">>,               \* .trud.
      <<"t", "r", "u", "e">> }                        \* true

ValStrings ==
    SeqsUpTo(ValAlphabet, MaxValLen) \cup ValSamples
        \cup CaseSpellings(dot_true) \cup CaseSpellings(dot_false)

InitDV ==
    /\ pc = "start"
    /\ val_string \in ValStrings
    /\ dv = DvNone
    /\ lines = <<>>
    /\ IdleFL
    /\ IdleDecl
    /\ IdleGen
    /\ IdleDb

\* dtype_and_value(val_string) is called and returns or raises
CallDtypeAndValue ==
    /\ pc = "start"
    /\ dv' = dtype_and_value(val_string)
    /\ pc' = IF dv'.raised = "none" THEN "returned" ELSE "raised"
    /\ UNCHANGED <<dbVars, lines, flVars, val_string, declVars, genVars>>

NextDV == CallDtypeAndValue

SpecDV == InitDV /\ [][NextDV]_vars

(***************************************************************************)
(* C3 - C7: dtype_and_value                                                *)
(***************************************************************************)
\* C3: dtype_and_value is total: for every string it returns a dtype among
\* bool, str, int, float and never raises.
C3_Total ==
    pc # "start" =>
        /\ dv.raised = "none"
        /\ dv.dtype \in {"bool", "str", "int", "float"}

\* C4: every string that contains a quote character, single or double, is
\* classified str and returned unchanged.
C4_QuotedIsStr ==
    (pc # "start" /\ (HasChar(val_string, "'") \/ HasChar(val_string, "\"")))
        => dv = DvStr(val_string)

\* a decimal point or an exponent marker in either spelling
HasPointOrExponent(s) == \E p \in 1..Len(s) : s[p] \in {".", "e", "E", "d", "D"}

\* the extended-precision spelling written as the ordinary one, in lower case
OrdinarySpelling(s) ==
    [p \in 1..Len(s) |-> IF s[p] \in {"d", "D"} THEN "e" ELSE LowerChar(s[p])]

ReachesFloatRule(s) ==
    /\ s \notin CaseSpellings(dot_true) \cup CaseSpellings(dot_false)
    /\ ~HasChar(s, "'")
    /\ HasPointOrExponent(s)

\* the same literal with the two exponent spellings exchanged
OtherSpelling(s) ==
    [p \in 1..Len(s) |-> CASE s[p] = "d" -> "e" [] s[p] = "D" -> "E"
                           [] s[p] = "e" -> "d" [] s[p] = "E" -> "D"
                           [] OTHER -> s[p]]

SignedDigits(s) ==
    \E k \in {0, 1} :
        /\ Len(s) > k
        /\ k = 1 => s[1] = "-"
        /\ \A p \in (k + 1)..Len(s) : s[p] \in Digits

\* C6: a string that is exactly an optional minus sign and one or more digits
\* is classified int, with the integer value of the digits (leading zeros
\* ignored).
C6_SignedDigitsIsInt ==
    (pc # "start" /\ SignedDigits(val_string))
        => dv = DvInt(IF val_string[1] = "-"
                      THEN 0 - DecimalValue(Tail(val_string))
                      ELSE DecimalValue(val_string))

\* -007 has been classified: int, -7
C6_Witness ==
    /\ pc = "returned"
    /\ val_string = <<"-", "0", "0", "7">>
    /\ dv = DvInt(0 - 7)

\* C7: every upper/lower-case spelling of .true. gives bool True and every
\* spelling of .false. gives bool False.
C7_BoolSpellings ==
    pc # "start" =>
        /\ val_string \in CaseSpellings(dot_true) => dv = DvBool(TRUE)
        /\ val_string \in CaseSpellings(dot_false) => dv = DvBool(FALSE)

\* .fAlSe. has been classified: bool, False
C7_Witness ==
    /\ pc = "returned"
    /\ val_string = <<".", "f", "A", "l", "S", "e", ".">>
    /\ dv = DvBool(FALSE)

(***************************************************************************)
(* database.py: the declaration parser of generate_language_data           *)
(***************************************************************************)
\* NamelistItem(name, dtype, default, dim, order, namelist, doc), lines 80-88;
\* default is kept as a value of dtype_and_value's kind, doc as a string.
NamelistItem(name, dtype, default, dim, an_order, nl, a_doc) ==
    [name |-> name, lower_name |-> Lower(name), dtype |-> dtype,
     default |-> default, dim |-> dim, order |-> an_order, namelist |-> nl,
     doc |-> a_doc]

\* dfts.get(dtype, ''), lines 31-36 and 309
dfts(dtype) ==
    CASE dtype = "bool" -> DvBool(FALSE)
      [] dtype = "str" -> DvStr(<<>>)
      [] dtype = "int" -> DvInt(0)
      [] dtype = "float" -> DvFloat(<<0, 0>>)

\* lines 280-281: the text before the first '!', trimmed
StripInlineComment(line) ==
    IF HasChar(line, "!")
    THEN Strip(SubSeq(line, 1, IndexOf(line, "!") - 1))
    ELSE Strip(line)

\* lines 278-281: code_lines of a definitions file, or the exception of
\* full_lines
CodeLines(ls) ==
    LET w == full_lines(ls, FALSE, FALSE)
    IN IF w.raised # "none" THEN w
       ELSE [raised |-> "none",
             res |-> [k \in 1..Len(w.res) |-> StripInlineComment(w.res[k])]]

kw_contains == <<"c", "o", "n", "t", "a", "i", "n", "s">>
colons == <<":", ":">>

\* line 285: re.match('\A\s*contains', line)
BeginsContains(line) == StartsWith(LStrip(line), kw_contains)

RECURSIVE AssignmentLines_NoBreak(_)
AssignmentLines_NoBreak(cl) ==
    IF Len(cl) = 0 THEN <<>>
    ELSE IF BeginsContains(cl[1]) THEN AssignmentLines_NoBreak(Tail(cl))
    ELSE IF ~HasSub(cl[1], colons) THEN AssignmentLines_NoBreak(Tail(cl))
    ELSE <<cl[1]>> \o AssignmentLines_NoBreak(Tail(cl))

RECURSIVE AssignmentLines(_)
\* lines 283-290: the loop that fills assignment_lines
AssignmentLines(cl) ==
    IF Len(cl) = 0 THEN <<>>
    ELSE IF BeginsContains(cl[1]) THEN <<>>
    ELSE IF ~HasSub(cl[1], colons) THEN AssignmentLines(Tail(cl))
    ELSE <<cl[1]>> \o AssignmentLines(Tail(cl))

RECURSIVE SplitColons(_)
\* line.split('::')
SplitColons(line) ==
    IF ~HasSub(line, colons) THEN <<line>>
    ELSE LET p == CHOOSE q \in 1..(Len(line) - 1) :
                      /\ SubSeq(line, q, q + 1) = colons
                      /\ \A r \in 1..(q - 1) : SubSeq(line, r, r + 1) # colons
         IN <<SubSeq(line, 1, p - 1)>> \o SplitColons(SubSeq(line, p + 2, Len(line)))

\* lines 296-297: [s.strip() for s in line.split('::')]
PairOf(line) ==
    LET parts == SplitColons(line) IN [k \in 1..Len(parts) |-> Strip(parts[k])]

\* lines 299-308: the dtype of a type specification
DtypeOf(type) ==
    IF HasSub(type, <<"l", "o", "g", "i", "c", "a", "l">>) THEN "bool"
    ELSE IF HasSub(type, <<"c", "h", "a", "r", "a", "c", "t", "e", "r">>) THEN "str"
    ELSE IF HasSub(type, <<"i", "n", "t", "e", "g", "e", "r">>) THEN "int"
    ELSE IF HasSub(type, <<"r", "e", "a", "l">>) THEN "float"
    ELSE "str"

RECURSIVE SentinelFrom(_, _, _)
\* lines 317-327: the walk over name_chars from position p at paren_level
SentinelFrom(s, p, paren_level) ==
    IF p > Len(s) THEN <<>>
    ELSE IF paren_level > 0 /\ s[p] = "," THEN <<"!">> \o SentinelFrom(s, p + 1, paren_level)
    ELSE IF s[p] = "(" THEN <<s[p]>> \o SentinelFrom(s, p + 1, paren_level + 1)
    ELSE IF s[p] = ")" THEN <<s[p]>> \o SentinelFrom(s, p + 1, paren_level - 1)
    ELSE <<s[p]>> \o SentinelFrom(s, p + 1, paren_level)

SentinelCommas_None(s) == s

\* lines 317-327: new_names before the split, commas in parentheses made '!'
SentinelCommas(s) == SentinelFrom(s, 1, 0)

RECURSIVE SplitComma(_)
\* str.split(',')
SplitComma(s) ==
    IF ~HasChar(s, ",") THEN <<s>>
    ELSE <<SubSeq(s, 1, IndexOf(s, ",") - 1)>>
             \o SplitComma(SubSeq(s, IndexOf(s, ",") + 1, Len(s)))

\* the position of the last c of s, for a c that occurs in s
LastIndexOf(s, c) == CHOOSE p \in 1..Len(s) : s[p] = c /\ \A q \in (p + 1)..Len(s) : s[q] # c

\* line 330: re.match('\(.*\)', name): the name begins with a parenthetical
MatchesParen(name) ==
    Len(name) >= 1 /\ name[1] = "(" /\ \E q \in 2..Len(name) : name[q] = ")"

dimension_open == <<"d", "i", "m", "e", "n", "s", "i", "o", "n", "(">>

\* line 333: dimension_match.match(this_type), 'dimension\((.*)\)' with
\* re.IGNORECASE, tried at the beginning of this_type only
DimensionMatches(type) ==
    /\ StartsWith(Lower(type), dimension_open)
    /\ \E q \in (Len(dimension_open) + 1)..Len(type) : type[q] = ")"

\* line 335: dim_match.groups()[0], the text up to the last ')'
DimensionGroup(type) ==
    SubSeq(type, Len(dimension_open) + 1, LastIndexOf(type, ")") - 1)

\* line 338: paren_matcher.sub('', name), '\(.*\)' from the first '(' that has
\* a ')' after it to the last ')'
ParenSub(name) ==
    IF HasChar(name, "(") /\ HasChar(name, ")")
       /\ IndexOf(name, "(") < LastIndexOf(name, ")")
    THEN SubSeq(name, 1, IndexOf(name, "(") - 1)
             \o SubSeq(name, LastIndexOf(name, ")") + 1, Len(name))
    ELSE name

RECURSIVE ItemsOf(_, _, _, _)
\* lines 329-346: the loop over new_names from its k-th name on. The call of
\* line 332, re.sub('\(.*\)', ''), lacks its string argument and raises
\* TypeError.
ItemsOf(new_names, k, type, nl) ==
    IF k > Len(new_names) THEN [raised |-> "none", items |-> <<>>]
    ELSE IF MatchesParen(new_names[k]) THEN [raised |-> "TypeError", items |-> <<>>]
    ELSE LET num_indices == IF DimensionMatches(type)
                            THEN CountChar(DimensionGroup(type), ",") + 1
                            ELSE 0
             item == NamelistItem(Strip(ParenSub(new_names[k])), DtypeOf(type),
                                  dfts(DtypeOf(type)), num_indices, 0 - 1, nl, <<>>)
             rest == ItemsOf(new_names, k + 1, type, nl)
         IN [raised |-> rest.raised, items |-> <<item>> \o rest.items]

\* lines 299-346: the body of the loop over pairs for one (this_type, names)
DeclareNames(type, name_list, nl) ==
    ItemsOf(SplitComma(SentinelCommas(name_list)), 1, type, nl)

(***************************************************************************)
(* The declaration parser run on one definitions file.                     *)
(***************************************************************************)
MaxNameLen == 4

\* Physical lines the definitions files are built from.
DeclLineSamples ==
    { <<"i", "n", "t", "e", "g", "e", "r", " ", ":", ":", " ", "n", "\n">>,
      <<"c", "o", "n", "t", "a", "i", "n", "s", "\n">>,
      <<" ", " ", "l", "o", "g", "i", "c", "a", "l", " ", ":", ":", " ", "a", ",", " ", "&", "\n">>,
      <<" ", " ", " ", "b", "(", "2", ")", "\n">>,
      <<"!", " ", "r", "e", "a", "l", " ", ":", ":", " ", "c", "\n">>,
      <<"r", "e", "a", "l", " ", ":", ":", " ", "x", " ", "!", " ", "c", "o", "n", "t", "a", "i", "n", "s", "\n">>,
      <<"c", "o", "n", "t", "a", "i", "n", "s", " ", ":", ":", " ", "q", "\n">>,
      <<"x", " ", "=", " ", "1", "\n">>,
      <<"r", "e", "a", "l", " ", ":", ":", " ", "a", " ", ":", ":", " ", "b", "\n">> }

real_dp == <<"r", "e", "a", "l", "(", "d", "p", ")">>

\* Type specifications: "real(dp)", "real(dp), dimension(10,2)",
\* "DIMENSION(3,4), integer", "logical"
TypeSamples ==
    { real_dp,
      real_dp \o <<",", " ", "d", "i", "m", "e", "n", "s", "i", "o", "n", "(", "1", "0", ",", "2", ")">>,
      <<"D", "I", "M", "E", "N", "S", "I", "O", "N", "(", "3", ",", "4", ")", ",", " ", "i", "n", "t", "e", "g", "e", "r">>,
      <<"l", "o", "g", "i", "c", "a", "l">> }

abc_names == <<"a", "(", "2", ",", "3", ")", ",", " ", "b", ",", " ", "c", "(", "1", ")">>

\* Name lists: "a(2,3), b, c(1)", "x", "x(5)", "a, (b)", "(a), b"
NameSamples ==
    { abc_names,
      <<"x">>,
      <<"x", "(", "5", ")">>,
      <<"a", ",", " ", "(", "b", ")">>,
      <<"(", "a", ")", ",", " ", "b">> }

NameAlphabet == {"a", "b", "(", ")", ",", " "}

\* one declaration line, as readlines() gives it
DeclLine(type, name_list) == type \o <<" ", ":", ":", " ">> \o name_list \o <<"\n">>

\* The definitions files: 1..MaxLines sample lines, every sample type with every
\* sample name list, and "real(dp)" with every name list over NameAlphabet up
\* to MaxNameLen characters.
DefineFiles ==
    (SeqsUpTo(DeclLineSamples, MaxLines) \ {<<>>})
        \cup {<<DeclLine(t, n)>> : t \in TypeSamples, n \in NameSamples}
        \cup {<<DeclLine(real_dp, n)>> : n \in SeqsUpTo(NameAlphabet, MaxNameLen)}

InitDecl ==
    /\ pc = "start"
    /\ lines \in DefineFiles
    /\ namelist = "controls"
    /\ namelist_data = <<>>
    /\ code_lines = <<>>
    /\ assignment_lines = <<>>
    /\ pair = 1
    /\ this_type = <<>>
    /\ names = <<>>
    /\ exc = "none"
    /\ IdleFL
    /\ IdleDV
    /\ IdleGen
    /\ IdleDb

\* lines 269-281: the lines of the definitions file are read and made
\* code_lines; an exception of full_lines leaves generate_language_data
ReadDefineFile ==
    /\ pc = "start"
    /\ LET w == CodeLines(lines)
       IN IF w.raised # "none"
          THEN /\ exc' = w.raised
               /\ pc' = "raised"
               /\ UNCHANGED code_lines
          ELSE /\ code_lines' = w.res
               /\ pc' = "scan"
               /\ UNCHANGED exc
    /\ UNCHANGED <<dbVars, lines, flVars, dvVars, genVars, namelist, namelist_data, assignment_lines,
                   pair, this_type, names>>

\* lines 283-290: the scan that fills assignment_lines
ScanCodeLines ==
    /\ pc = "scan"
    /\ assignment_lines' = AssignmentLines(code_lines)
    /\ pair' = 1
    /\ pc' = "pairs"
    /\ UNCHANGED <<dbVars, lines, flVars, dvVars, genVars, namelist, namelist_data, code_lines,
                   this_type, names, exc>>

\* lines 296-346: one pass of the loop over pairs; a line with more than one
\* '::' does not unpack into (this_type, names) and raises ValueError
ParsePair ==
    /\ pc = "pairs"
    /\ pair <= Len(assignment_lines)
    /\ LET parts == PairOf(assignment_lines[pair])
       IN IF Len(parts) # 2
          THEN /\ exc' = "ValueError"
               /\ pc' = "raised"
               /\ UNCHANGED <<namelist_data, pair, this_type, names>>
          ELSE LET r == DeclareNames(parts[1], parts[2], namelist)
               IN /\ this_type' = parts[1]
                  /\ names' = parts[2]
                  /\ namelist_data' = namelist_data \o r.items
                  /\ exc' = r.raised
                  /\ pc' = IF r.raised = "none" THEN "pairs" ELSE "raised"
                  /\ pair' = pair + 1
    /\ UNCHANGED <<dbVars, lines, flVars, dvVars, genVars, namelist, code_lines, assignment_lines>>

\* line 298: the loop over pairs ends
EndDefineFile ==
    /\ pc = "pairs"
    /\ pair > Len(assignment_lines)
    /\ pc' = "parsed"
    /\ UNCHANGED <<dbVars, lines, flVars, dvVars, declVars, genVars>>

NextDecl == ReadDefineFile \/ ScanCodeLines \/ ParsePair \/ EndDefineFile

SpecDecl == InitDecl /\ [][NextDecl]_vars

(***************************************************************************)
(* C8 - C10: the declaration parser                                        *)
(***************************************************************************)
RECURSIVE TopLevelFrom(_, _, _, _)
\* the entries of a name list from position p: a comma ends the entry cur
\* unless it stands at parenthesis depth > 0
TopLevelFrom(s, p, depth, cur) ==
    IF p > Len(s) THEN <<cur>>
    ELSE IF s[p] = "," /\ ~(depth > 0) THEN <<cur>> \o TopLevelFrom(s, p + 1, depth, <<>>)
    ELSE TopLevelFrom(s, p + 1,
                      depth + (IF s[p] = "(" THEN 1 ELSE IF s[p] = ")" THEN 0 - 1 ELSE 0),
                      Append(cur, s[p]))

\* the top-level comma-separated entries of a name list, in order
TopLevelEntries(s) == TopLevelFrom(s, 1, 0, <<>>)

\* the entry, trimmed, ends with a parenthetical
HasSuffix(e) ==
    LET t == Strip(e) IN Len(t) > 0 /\ t[Len(t)] = ")" /\ HasChar(t, "(")

\* the entry holds no parenthesis at all
IsPlain(e) == ~HasChar(e, "(") /\ ~HasChar(e, ")")

\* the entry without its parenthetical suffix and surrounding whitespace
EntryName(e) ==
    IF HasSuffix(e) THEN Strip(SubSeq(Strip(e), 1, IndexOf(Strip(e), "(") - 1))
    ELSE Strip(e)

\* the first pair of the file has been through lines 298-346
FirstPairParsed == pc \in {"pairs", "raised"} /\ pair = 2

\* C8: a comma at parenthesis depth > 0 never separates names: the records of
\* a name list are, in order, one per top-level comma-separated entry (all of
\* them when the loop over the names ran to its end), and the stored name of
\* an entry that is a name with or without a parenthetical suffix is the
\* entry without that suffix and without surrounding whitespace.
C8_OneRecordPerTopLevelEntry ==
    FirstPairParsed =>
        LET e == TopLevelEntries(names)
        IN /\ Len(namelist_data) <= Len(e)
           /\ exc = "none" => Len(namelist_data) = Len(e)
           /\ \A k \in 1..Len(namelist_data) :
                 (HasSuffix(e[k]) \/ IsPlain(e[k]))
                     => namelist_data[k].name = EntryName(e[k])

\* "a(2,3), b, c(1)" has given exactly the records a, b, c
C8_Witness ==
    /\ FirstPairParsed
    /\ exc = "none"
    /\ names = abc_names
    /\ [k \in 1..Len(namelist_data) |-> namelist_data[k].name] = <<<<"a">>, <<"b">>, <<"c">>>>

\* the argument list of the first dimension(...) found anywhere in the type
\* specification: the text between its '(' and the next ')'
DimensionArgs(type) ==
    LET low == Lower(type)
        p == CHOOSE q \in 1..Len(low) :
                 /\ StartsWith(SubSeq(low, q, Len(low)), dimension_open)
                 /\ \A r \in 1..(q - 1) : ~StartsWith(SubSeq(low, r, Len(low)), dimension_open)
        args == SubSeq(type, p + Len(dimension_open), Len(type))
    IN IF HasChar(args, ")") THEN SubSeq(args, 1, IndexOf(args, ")") - 1) ELSE args

\* the dim the claim gives a declared entry e of a line with type
\* specification type
ClaimedDim(type, e) ==
    IF HasSuffix(e)
    THEN CountChar(SubSeq(Strip(e), IndexOf(Strip(e), "("), Len(Strip(e))), ",") + 1
    ELSE IF HasSub(Lower(type), dimension_open)
    THEN CountChar(DimensionArgs(type), ",") + 1
    ELSE 0

\* the entry is a name, with or without a parenthetical suffix
IsDeclaredName(e) ==
    /\ HasSuffix(e) \/ IsPlain(e)
    /\ Len(EntryName(e)) > 0
    /\ \A p \in 1..Len(EntryName(e)) : EntryName(e)[p] \notin {"(", ")", ",", " "}

\* C9: the dim of a declared name is the number of commas in its own
\* parenthetical suffix plus one if it has one, else the number of commas in
\* the dimension(...) attribute plus one if the type specification holds one
\* anywhere, else 0.
C9_DimFromSuffixOrAttribute ==
    FirstPairParsed =>
        \A k \in 1..Len(namelist_data) :
            (k <= Len(TopLevelEntries(names)) /\ IsDeclaredName(TopLevelEntries(names)[k]))
                => namelist_data[k].dim = ClaimedDim(this_type, TopLevelEntries(names)[k])

\* the index of the first logical line that begins with 'contains', or one
\* past the last line
FirstContains(cl) ==
    IF \E k \in 1..Len(cl) : BeginsContains(cl[k])
    THEN CHOOSE k \in 1..Len(cl) :
             BeginsContains(cl[k]) /\ \A j \in 1..(k - 1) : ~BeginsContains(cl[j])
    ELSE Len(cl) + 1

\* the lines that contain '::' and precede the first 'contains' line
DeclarationsBeforeContains(cl) ==
    SelectSeq(SubSeq(cl, 1, FirstContains(cl) - 1), LAMBDA l : HasSub(l, colons))

RECURSIVE RecordsOf(_, _, _)
\* the records lines 298-346 make of the first n of the declaration lines dl
RecordsOf(dl, n, nl) ==
    IF n = 0 THEN <<>>
    ELSE RecordsOf(dl, n - 1, nl)
             \o (IF Len(PairOf(dl[n])) = 2
                 THEN DeclareNames(PairOf(dl[n])[1], PairOf(dl[n])[2], nl).items
                 ELSE <<>>)

\* C10: the scan of a definitions file stops at the first logical line that
\* begins with 'contains': the records are those of the lines containing '::'
\* that precede it, taken in order (pair - 1 of them have been through the
\* loop), no line at or after it gives a record, and every record has
\* order = -1.
C10_StopsAtContains ==
    /\ \A k \in 1..Len(namelist_data) : namelist_data[k].order = 0 - 1
    /\ pc \in {"pairs", "parsed", "raised"} =>
          /\ pair - 1 <= Len(DeclarationsBeforeContains(code_lines))
          /\ namelist_data = RecordsOf(DeclarationsBeforeContains(code_lines), pair - 1, namelist)
          /\ pc = "parsed" => pair - 1 = Len(DeclarationsBeforeContains(code_lines))

\* a file with a declaration before its 'contains' line and one after it has
\* been parsed to the end, and has given records
C10_Witness ==
    /\ pc = "parsed"
    /\ Len(namelist_data) >= 1
    /\ \E k \in 1..Len(code_lines) :
          /\ BeginsContains(code_lines[k])
          /\ \E j \in 1..(k - 1) : HasSub(code_lines[j], colons)
          /\ \E j \in (k + 1)..Len(code_lines) : HasSub(code_lines[j], colons)

(***************************************************************************)
(* database.py: get_doc_text                                               *)
(***************************************************************************)
\* the characters the regex class \w matches (ASCII)
WordChars ==
    {"a", "b", "c", "d", "e", "f", "g", "h", "i", "j", "k", "l", "m", "n", "o",
     "p", "q", "r", "s", "t", "u", "v", "w", "x", "y", "z",
     "A", "B", "C", "D", "E", "F", "G", "H", "I", "J", "K", "L", "M", "N", "O",
     "P", "Q", "R", "S", "T", "U", "V", "W", "X", "Y", "Z",
     "0", "1", "2", "3", "4", "5", "6", "7", "8", "9", "_"}

\* blank_matcher.match(line), line 188: '\s*\Z'
blank_matcher(line) == SkipSpace(line, 1) > Len(line)

\* text_matcher.match(line), line 189: '\s*!\s*[^#]\w+'. The character that
\* [^#] takes is any character but '#' standing after the marker and some of
\* the whitespace that follows it, and a word character must come next.
text_matcher(line) ==
    LET p == SkipSpace(line, 1)
    IN /\ p <= Len(line)
       /\ line[p] = "!"
       /\ \E q \in (p + 1)..SkipSpace(line, p + 1) :
             /\ q + 1 <= Len(line)
             /\ line[q] # "#"
             /\ line[q + 1] \in WordChars

\* is_doc(line), lines 187-191
is_doc(line) == blank_matcher(line) \/ text_matcher(line)

\* is_code(line), lines 193-195: '\s*\w+' matches at the beginning
is_code(line) ==
    LET p == SkipSpace(line, 1) IN p <= Len(line) /\ line[p] \in WordChars

hashes == <<"#", "#", "#">>

\* header_matcher.match(line), line 197: '\A\s*!\s*###\s*{name}(\(.*\))?\s*\Z'
\* for a name of word characters; '.' matches no newline.
header_matcher(line, name) ==
    LET p1 == SkipSpace(line, 1)
        p2 == SkipSpace(line, p1 + 1)
        p3 == SkipSpace(line, p2 + 3)
        p4 == p3 + Len(name)
        rest == SubSeq(line, p4, Len(line))
    IN /\ p1 <= Len(line)
       /\ line[p1] = "!"
       /\ p2 + 2 <= Len(line)
       /\ SubSeq(line, p2, p2 + 2) = hashes
       /\ p4 - 1 <= Len(line)
       /\ SubSeq(line, p3, p4 - 1) = name
       /\ \/ blank_matcher(rest)
          \/ /\ Len(rest) >= 2
             /\ rest[1] = "("
             /\ \E q \in 2..Len(rest) :
                   /\ rest[q] = ")"
                   /\ \A r \in 2..(q - 1) : rest[r] # "\n"
                   /\ blank_matcher(SubSeq(rest, q + 1, Len(rest)))

could_not == <<"C", "o", "u", "l", "d", " ", "n", "o", "t", " ", "g", "e", "t", " ",
               "d", "o", "c", "u", "m", "e", "n", "t", "a", "t", "i", "o", "n", " ",
               "f", "o", "r", " ", "i", "t", "e", "m", " ">>

\* line 214: "Could not get documentation for item {}.".format(name)
Placeholder(name) == could_not \o name \o <<".">>

RECURSIVE DocFrom(_, _, _, _, _)
\* lines 201-214: the loop over defaults_lines from its k-th line on, with
\* found_header and res (acc) as they stand
DocFrom(ls, name, k, found_header, acc) ==
    IF k > Len(ls) THEN Placeholder(name)
    ELSE IF header_matcher(ls[k], name)
    THEN DocFrom(ls, name, k + 1, TRUE, acc \o Strip(ls[k]) \o <<"\n">>)
    ELSE IF found_header /\ is_code(ls[k]) THEN Strip(acc)
    ELSE IF found_header /\ is_doc(ls[k])
    THEN DocFrom(ls, name, k + 1, found_header,
                 acc \o <<" ", " ">> \o Strip(ls[k]) \o <<"\n">>)
    ELSE DocFrom(ls, name, k + 1, found_header, acc)

\* get_doc_text(defaults_lines, name), lines 185-214
get_doc_text(defaults_lines, name) == DocFrom(defaults_lines, name, 1, FALSE, <<>>)

(***************************************************************************)
(* The doc-block scanner applied to the lines of one defaults file.        *)
(***************************************************************************)
MaxDocLines == 4

\* Physical lines the scanned files are built from, as readlines() gives them:
\* "! ### x", "  !###x(1)  ", "! ### xa", "! doc one", an empty line, "x = 1",
\* "! - note", "/"
DocLineSamples ==
    { <<"!", " ", "#", "#", "#", " ", "x", "\n">>,
      <<" ", " ", "!", "#", "#", "#", "x", "(", "1", ")", " ", " ", "\n">>,
      <<"!", " ", "#", "#", "#", " ", "x", "a", "\n">>,
      <<"!", " ", "d", "o", "c", " ", "o", "n", "e", "\n">>,
      <<"\n">>,
      <<"x", " ", "=", " ", "1", "\n">>,
      <<"!", " ", "-", " ", "n", "o", "t", "e", "\n">>,
      <<"/", "\n">> }

DocNames == { <<"x">>, <<"x", "a">> }

DocFiles == SeqsUpTo(DocLineSamples, MaxDocLines)

InitDoc ==
    /\ pc = "start"
    /\ lines \in DocFiles
    /\ IdleFL
    /\ IdleDV
    /\ IdleDb
    /\ IdleDecl
    /\ fs = <<>>
    /\ define_file = 1
    /\ lower_names = <<>>
    /\ order = 0
    /\ assign_name \in DocNames
    /\ doc = <<>>
    /\ namelist_tuples = Unbound
    /\ start_data = <<>>
    /\ first_result = <<>>
    /\ run = 1

\* get_doc_text(lines, assign_name) is called and returns
CallGetDocText ==
    /\ pc = "start"
    /\ doc' = get_doc_text(lines, assign_name)
    /\ pc' = "returned"
    /\ UNCHANGED <<dbVars, lines, flVars, dvVars, declVars, fs, define_file, lower_names,
                   order, assign_name, namelist_tuples, start_data, first_result, run>>

NextDoc == CallGetDocText

SpecDoc == InitDoc /\ [][NextDoc]_vars

(***************************************************************************)
(* C14, C15: get_doc_text                                                  *)
(***************************************************************************)
\* a comment line that begins a header of some name: marker, then '###'
BeginsHeader(line) ==
    LET p1 == SkipSpace(line, 1)
        p2 == SkipSpace(line, p1 + 1)
    IN /\ is_comment(line)
       /\ p2 + 2 <= Len(line)
       /\ SubSeq(line, p2, p2 + 2) = hashes

\* ls has its first header of name at h and a code line (its first character
\* that is no whitespace is a word character) at c, with nothing but blank
\* lines and comment lines that are no header of name between
HeaderThenCode(ls, name, h, c) ==
    /\ h < c
    /\ header_matcher(ls[h], name)
    /\ \A k \in 1..(h - 1) : ~header_matcher(ls[k], name)
    /\ is_code(ls[c])
    /\ \A k \in (h + 1)..(c - 1) :
          (is_blank(ls[k]) \/ is_comment(ls[k])) /\ ~header_matcher(ls[k], name)

RECURSIVE SplitNewline(_)
\* str.split('\n')
SplitNewline(s) ==
    IF ~HasChar(s, "\n") THEN <<s>>
    ELSE <<SubSeq(s, 1, IndexOf(s, "\n") - 1)>>
             \o SplitNewline(SubSeq(s, IndexOf(s, "\n") + 1, Len(s)))

\* the lines of a text, each trimmed, the empty ones left out
TrimmedLines(text) ==
    SelectSeq([k \in 1..Len(SplitNewline(text)) |-> Strip(SplitNewline(text)[k])],
              LAMBDA l : Len(l) > 0)

\* the header line and the comment lines after it that begin no header, up to
\* and not including line c, each trimmed
ClaimedBlock(ls, h, c) ==
    <<Strip(ls[h])>>
        \o SelectSeq([k \in 1..(c - h - 1) |-> Strip(ls[h + k])],
                     LAMBDA l : is_comment(l) /\ ~BeginsHeader(l))

\* C14: when a header line of the name is followed by comment or blank lines
\* and then a code line, get_doc_text returns exactly the header line and the
\* comment lines after it that are no header, up to and not including the
\* first code line, each trimmed; nothing at or after the code line is in it.
C14_HeaderBlockUpToCode ==
    pc = "returned" =>
        \A h \in 1..Len(lines), c \in 1..Len(lines) :
            HeaderThenCode(lines, assign_name, h, c)
                => TrimmedLines(doc) = ClaimedBlock(lines, h, c)

\* C15: get_doc_text returns the placeholder if and only if no line matches
\* the header pattern of the name; a header whose block runs to the end of
\* the lines gives the block.
C15_PlaceholderIffNoHeader ==
    pc = "returned" =>
        (doc = Placeholder(assign_name)
            <=> ~\E k \in 1..Len(lines) : header_matcher(lines[k], assign_name))

(***************************************************************************)
(* database.py: the defaults merger of generate_language_data              *)
(***************************************************************************)
\* lines 367-368: re.match('\A\s*\!', line) or re.match('\A\s+\Z', line)
SkipsLine(line) ==
    \/ (LET p == SkipSpace(line, 1) IN p <= Len(line) /\ line[p] = "!")
    \/ (Len(line) >= 1 /\ SkipSpace(line, 1) > Len(line))

RECURSIVE SplitEq(_)
\* line 373: str.split('='), a split at every '='
SplitEq(s) ==
    IF ~HasChar(s, "=") THEN <<s>>
    ELSE <<SubSeq(s, 1, IndexOf(s, "=") - 1)>>
             \o SplitEq(SubSeq(s, IndexOf(s, "=") + 1, Len(s)))

\* lines 376-379: num_indices of an assignment target
NumIndices(target) ==
    IF MatchesParen(target) THEN CountChar(target, ",") ELSE 0

\* line 380: paren_matcher.sub('', assign_name).strip()
AssignName(target) == Strip(ParenSub(target))

\* lines 382-385 without the cut at '!'
ValString_KeepComment(text) == Strip(text)

\* lines 382-385: val_string of def_line[1]
ValString(text) ==
    IF HasChar(Strip(text), "!")
    THEN Strip(SubSeq(Strip(text), 1, IndexOf(Strip(text), "!") - 1))
    ELSE Strip(text)

\* line 391: lower_names.index(name) as a 1-based position, 0 for ValueError
IndexIn(lnames, name) ==
    IF \E j \in 1..Len(lnames) : lnames[j] = name
    THEN CHOOSE j \in 1..Len(lnames) :
             lnames[j] = name /\ \A k \in 1..(j - 1) : lnames[k] # name
    ELSE 0

\* lines 392-394 without the assignment of order
UpdateItem_OrderKept(item, val, an_order, a_doc) ==
    [item EXCEPT !.default = val, !.doc = a_doc]

\* lines 392-394: the three assignments to namelist_data[j]
UpdateItem(item, val, an_order, a_doc) ==
    [item EXCEPT !.default = val, !.order = an_order, !.doc = a_doc]

\* line 364 left out: order keeps the value it has
Line364_Missing(order_before) == order_before

\* line 364: order = 0
Line364(order_before) == 0

digit_chars == <<"0", "1", "2", "3", "4", "5", "6", "7", "8", "9">>

RECURSIVE NatStr(_)
\* str(n) for an int n >= 0
NatStr(n) ==
    IF n < 10 THEN <<digit_chars[n + 1]>>
    ELSE NatStr(n \div 10) \o <<digit_chars[(n % 10) + 1]>>

\* str(n) for an int
IntStr(n) == IF n < 0 THEN <<"-">> \o NatStr(0 - n) ELSE NatStr(n)

\* k characters '0'
Zeros(k) == [p \in 1..k |-> "0"]

\* str(x) for the float x = m * 10^e, m without a factor of ten: the digits of
\* m with the point set in for a decimal point position in -3..16, the
\* exponent form otherwise. The number is taken as its own shortest spelling.
FloatStr(f) ==
    LET m == f[1]
        digits == NatStr(IF m < 0 THEN 0 - m ELSE m)
        n == Len(digits)
        decpt == n + f[2]
        sign == IF m < 0 THEN <<"-">> ELSE <<>>
        ex == decpt - 1
        exdigits == NatStr(IF ex < 0 THEN 0 - ex ELSE ex)
    IN IF m = 0 THEN <<"0", ".", "0">>
       ELSE IF decpt > 0 - 4 /\ decpt <= 16
       THEN sign \o (IF decpt <= 0 THEN <<"0", ".">> \o Zeros(0 - decpt) \o digits
                     ELSE IF decpt >= n THEN digits \o Zeros(decpt - n) \o <<".", "0">>
                     ELSE SubSeq(digits, 1, decpt) \o <<".">> \o SubSeq(digits, decpt + 1, n))
       ELSE sign \o <<digits[1]>>
                \o (IF n > 1 THEN <<".">> \o SubSeq(digits, 2, n) ELSE <<>>)
                \o <<"e">> \o (IF ex < 0 THEN <<"-">> ELSE <<"+">>)
                \o (IF Len(exdigits) < 2 THEN <<"0">> ELSE <<>>) \o exdigits

\* str(self.default) of line 123
DefaultStr(d) ==
    CASE d.dtype = "bool" -> IF d.b THEN <<"T", "r", "u", "e">> ELSE <<"F", "a", "l", "s", "e">>
      [] d.dtype = "str" -> d.s
      [] d.dtype = "int" -> IntStr(d.n)
      [] d.dtype = "float" -> FloatStr(d.f)

\* NamelistItem.to_tuple, lines 121-123
to_tuple(item) ==
    <<item.name, item.lower_name, item.dtype, DefaultStr(item.default), item.dim,
      item.order, item.namelist, item.doc>>

\* line 401: [item.to_tuple() for item in namelist_data]
Tuples(data) == [bound |-> TRUE, tuples |-> [k \in 1..Len(data) |-> to_tuple(data[k])]]

(***************************************************************************)
(* The defaults merger run on the lines of one defaults file, from a       *)
(* record set the declaration parser built; then run once more over the    *)
(* same lines from the same record set.                                    *)
(***************************************************************************)
MaxDefaultsLines == 3

\* Physical lines the defaults files are built from, as readlines() gives
\* them: "x = 1", "  ! ### x", an empty line, "  X(1) = 2.5d0 ! note",
\* "y = 'a=b'", "y = .true.", "z", "x = d"
DefaultsLineSamples ==
    { <<"x", " ", "=", " ", "1", "\n">>,
      <<" ", " ", "!", " ", "#", "#", "#", " ", "x", "\n">>,
      <<"\n">>,
      <<" ", " ", "X", "(", "1", ")", " ", "=", " ", "2", ".", "5", "d", "0", " ", "!", " ", "n", "o", "t", "e", "\n">>,
      <<"y", " ", "=", " ", "'", "a", "=", "b", "'", "\n">>,
      <<"y", " ", "=", " ", ".", "t", "r", "u", "e", ".", "\n">>,
      <<"z", "\n">>,
      <<"x", " ", "=", " ", "d", "\n">> }

DefaultsFiles == SeqsUpTo(DefaultsLineSamples, MaxDefaultsLines)

\* The record sets a merge starts from: none, the records of
\* "real(dp) :: x", and those of "logical :: y, x(2)".
StartSets ==
    { <<>>,
      DeclareNames(real_dp, <<"x">>, "controls").items,
      DeclareNames(<<"l", "o", "g", "i", "c", "a", "l">>,
                   <<"y", ",", " ", "x", "(", "2", ")">>, "controls").items }

InitMerge ==
    /\ pc = "defaults"
    /\ lines \in DefaultsFiles
    /\ IdleFL
    /\ IdleDV
    /\ IdleDb
    /\ namelist = "controls"
    /\ namelist_data \in StartSets
    /\ code_lines = <<>>
    /\ assignment_lines = <<>>
    /\ pair = 1
    /\ this_type = <<>>
    /\ names = <<>>
    /\ exc = "none"
    /\ fs = <<>>
    /\ define_file = 1
    /\ lower_names = <<>>
    /\ order = 0
    /\ assign_name = <<>>
    /\ doc = <<>>
    /\ namelist_tuples = Unbound
    /\ start_data = namelist_data
    /\ first_result = <<>>
    /\ run = 1

\* lines 357-364: names, lower_names and order are set before the loop
StartMerge ==
    /\ pc = "defaults"
    /\ names' = [k \in 1..Len(namelist_data) |-> namelist_data[k].name]
    /\ lower_names' = [k \in 1..Len(namelist_data) |-> Lower(namelist_data[k].name)]
    /\ order' = Line364(order)
    /\ i' = 1
    /\ pc' = "merge"
    /\ UNCHANGED <<dbVars, lines, res, ret, dvVars, namelist, namelist_data, code_lines,
                   assignment_lines, pair, this_type, exc, fs, define_file,
                   assign_name, doc, namelist_tuples, start_data, first_result, run>>

\* lines 373-385: the locals def_line, assign_name and num_indices of a line,
\* and val_string when def_line[1] exists
SplitLine(line) ==
    [def_line |-> SplitEq(line),
     assign_name |-> AssignName(SplitEq(line)[1]),
     num_indices |-> NumIndices(SplitEq(line)[1]),
     val_string |-> IF Len(SplitEq(line)) < 2 THEN <<>> ELSE ValString(SplitEq(line)[2])]

\* lines 365-399: one pass of the loop over the lines of the defaults file.
\* def_line[1] of a line without '=' raises IndexError (line 382), and what
\* dtype_and_value raises (line 386) leaves generate_language_data.
MergeLine ==
    /\ pc = "merge"
    /\ i <= Len(lines)
    /\ IF SkipsLine(lines[i])
       THEN /\ i' = i + 1
            /\ UNCHANGED <<pc, exc, assign_name, val_string, dv, doc, namelist_data, order>>
       ELSE \E l \in {SplitLine(lines[i])} :
            /\ assign_name' = l.assign_name
            /\ IF Len(l.def_line) < 2
               THEN /\ exc' = "IndexError"
                    /\ pc' = "raised"
                    /\ UNCHANGED <<val_string, dv, doc, namelist_data, order, i>>
               ELSE \E d \in {dtype_and_value(l.val_string)} :
                    /\ val_string' = l.val_string
                    /\ dv' = d
                    /\ IF d.raised # "none"
                       THEN /\ exc' = d.raised
                            /\ pc' = "raised"
                            /\ UNCHANGED <<doc, namelist_data, order, i>>
                       ELSE \E a_doc \in {get_doc_text(lines, l.assign_name)},
                               j \in {IndexIn(lower_names, Lower(l.assign_name))} :
                            /\ doc' = a_doc
                            /\ namelist_data' =
                                  IF j > 0
                                  THEN [namelist_data EXCEPT
                                           ![j] = UpdateItem(namelist_data[j], d, order, a_doc)]
                                  ELSE Append(namelist_data,
                                              NamelistItem(l.assign_name, d.dtype, d,
                                                           l.num_indices, order, namelist, a_doc))
                            /\ order' = order + 1
                            /\ i' = i + 1
                            /\ UNCHANGED <<pc, exc>>
    /\ UNCHANGED <<dbVars, lines, res, ret, namelist, code_lines, assignment_lines, pair,
                   this_type, names, fs, define_file, lower_names, namelist_tuples,
                   start_data, first_result, run>>

\* line 401: the loop over the lines has ended and namelist_tuples is made
EndMerge ==
    /\ pc = "merge"
    /\ i > Len(lines)
    /\ namelist_tuples' = Tuples(namelist_data)
    /\ first_result' = IF run = 1 THEN namelist_data ELSE first_result
    /\ pc' = "merged"
    /\ UNCHANGED <<dbVars, lines, flVars, dvVars, declVars, fs, define_file, lower_names,
                   order, assign_name, doc, start_data, run>>

\* the record set is built afresh and the merge is entered once more; the
\* locals keep what the first merge left in them
MergeAgain ==
    /\ pc = "merged"
    /\ run = 1
    /\ namelist_data' = start_data
    /\ run' = 2
    /\ pc' = "defaults"
    /\ UNCHANGED <<dbVars, lines, flVars, dvVars, namelist, code_lines, assignment_lines,
                   pair, this_type, names, exc, fs, define_file, lower_names, order,
                   assign_name, doc, namelist_tuples, start_data, first_result>>

NextMerge == StartMerge \/ MergeLine \/ EndMerge \/ MergeAgain

SpecMerge == InitMerge /\ [][NextMerge]_vars

(***************************************************************************)
(* C11 - C13, C20: the defaults merger                                     *)
(***************************************************************************)
\* a pass of the loop of line 365 is about to run on lines[i]
AtDefaultsLine == pc = "merge" /\ i <= Len(lines)

\* the line is neither comment-only nor blank
DefinesDefault(line) == ~is_comment(line) /\ ~is_blank(line)

\* the pass over lines[i] ran to its end
LineMerged == AtDefaultsLine /\ pc' = "merge" /\ i' = i + 1

\* the indices of the records whose lower-cased name is n
RecordsNamed(data, n) == {j \in 1..Len(data) : data[j].lower_name = n}

\* C11: for each default-defining line: if a record with the same lower-cased
\* canonical name exists, its dtype, default, order and doc are set to the
\* classified dtype, the classified value, the current counter and the doc
\* block and no record is added; otherwise exactly one new record with those
\* fields and the group's name is appended.
C11_UpdateOrAppend ==
    [][(LineMerged /\ DefinesDefault(lines[i])) =>
          IF RecordsNamed(namelist_data, Lower(assign_name')) # {}
          THEN /\ Len(namelist_data') = Len(namelist_data)
               /\ \E j \in RecordsNamed(namelist_data, Lower(assign_name')) :
                     /\ namelist_data'[j].dtype = dv'.dtype
                     /\ namelist_data'[j].default = dv'
                     /\ namelist_data'[j].order = order
                     /\ namelist_data'[j].doc = doc'
          ELSE /\ Len(namelist_data') = Len(namelist_data) + 1
               /\ SubSeq(namelist_data', 1, Len(namelist_data)) = namelist_data
               /\ namelist_data'[Len(namelist_data')].lower_name = Lower(assign_name')
               /\ namelist_data'[Len(namelist_data')].dtype = dv'.dtype
               /\ namelist_data'[Len(namelist_data')].default = dv'
               /\ namelist_data'[Len(namelist_data')].order = order
               /\ namelist_data'[Len(namelist_data')].doc = doc'
               /\ namelist_data'[Len(namelist_data')].namelist = namelist]_vars

\* the number of default-defining lines among the first k - 1 lines
DefiningBefore(ls, k) == Cardinality({j \in 1..(k - 1) : DefinesDefault(ls[j])})

\* exactly one record is new or changed, and it has order n
OneRecordGetsOrder(before, after, n) ==
    \E j \in 1..Len(after) :
        /\ j > Len(before) \/ after[j] # before[j]
        /\ after[j].order = n
        /\ \A k \in 1..Len(before) : k # j => after[k] = before[k]

\* C12: within one group the order counter starts at 0, advances by one for
\* each line that defines a default and never on a comment-only or blank
\* line: the n-th default-defining line (from 0, in file order) gives order n
\* to the one record it affects.
C12_OrderCountsDefiningLines ==
    [][/\ (pc = "defaults" /\ pc' = "merge") => order' = 0
       /\ (AtDefaultsLine /\ ~DefinesDefault(lines[i])) =>
              (order' = order /\ namelist_data' = namelist_data /\ i' = i + 1)
       /\ (LineMerged /\ DefinesDefault(lines[i])) =>
              /\ order = DefiningBefore(lines, i)
              /\ order' = order + 1
              /\ OneRecordGetsOrder(namelist_data, namelist_data', DefiningBefore(lines, i))]_vars

\* a file of a comment line and two default-defining lines has been merged:
\* the counter stands at 2 and the records hold the orders 0 and 1
C12_Witness ==
    /\ pc = "merged"
    /\ Len(lines) = 3
    /\ is_comment(lines[1])
    /\ order = 2
    /\ \E j \in 1..Len(namelist_data), k \in 1..Len(namelist_data) :
          namelist_data[j].order = 0 /\ namelist_data[k].order = 1

\* the text after the first '=' of a line
AfterFirstEq(line) == SubSeq(line, IndexOf(line, "=") + 1, Len(line))

\* the text before the first '!', if any, without surrounding whitespace
WithoutComment(text) ==
    Strip(IF HasChar(text, "!") THEN SubSeq(text, 1, IndexOf(text, "!") - 1) ELSE text)

\* C13: a default-defining line is split at its first '=' only: the value
\* expression that is classified is the whole text after the first '=' with
\* a trailing inline comment and surrounding whitespace removed, also when
\* the value text itself contains '='.
C13_SplitAtFirstEq ==
    [][(AtDefaultsLine /\ DefinesDefault(lines[i]) /\ HasChar(lines[i], "="))
          => val_string' = WithoutComment(AfterFirstEq(lines[i]))]_vars

\* C20: two merges over the same defaults source, each from the same freshly
\* built record set, end with identical records and the same output tuples.
C20_SecondMergeSameRecords ==
    (pc = "merged" /\ run = 2) =>
        /\ namelist_data = first_result
        /\ namelist_tuples = Tuples(first_result)

\* the second merge has ended after it updated a declared record and
\* appended one
C20_Witness ==
    /\ pc = "merged"
    /\ run = 2
    /\ order >= 2
    /\ Len(start_data) >= 1
    /\ Len(namelist_data) > Len(start_data)
    /\ \E j \in 1..Len(start_data) : namelist_data[j] # start_data[j]

(***************************************************************************)
(* database.py: generate_language_data, the loop over the namelists.       *)
(* The files are those of a mesa_dir whose version_number is 7380 or more  *)
(* (ctrls_io.f90); Init is the state after line 265.                       *)
(***************************************************************************)
\* line 238
namelists == <<"star_job", "controls", "pgstar">>

\* lines 247-254: the definitions files of a namelist
define_files(nl) ==
    CASE nl = "star_job" -> <<"star_job_controls.inc">>
      [] nl = "controls" -> <<"star_controls.inc", "ctrls_io.f90">>
      [] nl = "pgstar" -> <<"pgstar_controls.inc">>

\* lines 255-256: the defaults file of a namelist
default_files(nl) ==
    CASE nl = "star_job" -> "star_job.defaults"
      [] nl = "controls" -> "controls.defaults"
      [] nl = "pgstar" -> "pgstar.defaults"

FileNames ==
    {"star_job_controls.inc", "star_controls.inc", "ctrls_io.f90", "pgstar_controls.inc",
     "star_job.defaults", "controls.defaults", "pgstar.defaults"}

\* a file that open() finds, with the lines readlines() gives, and one it
\* does not find (IOError)
File(ls) == [missing |-> FALSE, lines |-> ls]
Missing == [missing |-> TRUE, lines |-> <<>>]

\* line 266: the namelist after nl in namelists, "" after the last
NextNamelist(nl) ==
    CASE nl = "star_job" -> "controls"
      [] nl = "controls" -> "pgstar"
      [] nl = "pgstar" -> ""

\* lines 266-274: the next file of define_files[namelist] is opened; a file
\* that is missing is passed over (continue)
OpenDefineFile ==
    /\ pc \in {"files", "parsed"}
    /\ define_file <= Len(define_files(namelist))
    /\ define_file' = define_file + 1
    /\ IF fs[define_files(namelist)[define_file]].missing
       THEN /\ pc' = "files"
            /\ UNCHANGED lines
       ELSE /\ pc' = "start"
            /\ lines' = fs[define_files(namelist)[define_file]].lines
    /\ UNCHANGED <<dbVars, flVars, dvVars, declVars, fs, lower_names, order, assign_name,
                   doc, namelist_tuples, start_data, first_result, run>>

\* lines 347-364: the defaults file of the namelist is opened. A missing file
\* goes on (continue, line 355) to the next namelist, or leaves the loop after
\* the last; otherwise names, lower_names and order are set for the merge.
OpenDefaultFile ==
    /\ pc \in {"files", "parsed"}
    /\ define_file > Len(define_files(namelist))
    /\ IF fs[default_files(namelist)].missing
       THEN /\ IF NextNamelist(namelist) = ""
               THEN /\ pc' = "return"
                    /\ UNCHANGED <<namelist, define_file>>
               ELSE /\ pc' = "files"
                    /\ namelist' = NextNamelist(namelist)
                    /\ define_file' = 1
            /\ UNCHANGED <<lines, i, names, lower_names, order>>
       ELSE /\ lines' = fs[default_files(namelist)].lines
            /\ names' = [k \in 1..Len(namelist_data) |-> namelist_data[k].name]
            /\ lower_names' = [k \in 1..Len(namelist_data) |-> Lower(namelist_data[k].name)]
            /\ order' = Line364(order)
            /\ i' = 1
            /\ pc' = "merge"
            /\ UNCHANGED <<namelist, define_file>>
    /\ UNCHANGED <<dbVars, res, ret, dvVars, namelist_data, code_lines, assignment_lines, pair,
                   this_type, exc, fs, assign_name, doc, namelist_tuples, start_data,
                   first_result, run>>

\* lines 400-401 and 266: the loop over the lines has ended, namelist_tuples
\* is made, and the loop over the namelists goes on or ends
EndDefaultFile ==
    /\ pc = "merge"
    /\ i > Len(lines)
    /\ namelist_tuples' = Tuples(namelist_data)
    /\ IF NextNamelist(namelist) = ""
       THEN /\ pc' = "return"
            /\ UNCHANGED <<namelist, define_file>>
       ELSE /\ pc' = "files"
            /\ namelist' = NextNamelist(namelist)
            /\ define_file' = 1
    /\ UNCHANGED <<dbVars, lines, flVars, dvVars, namelist_data, code_lines, assignment_lines,
                   pair, this_type, names, exc, fs, lower_names, order, assign_name,
                   doc, start_data, first_result, run>>

\* line 402: return namelist_tuples; the name is unbound (UnboundLocalError)
\* when line 401 never ran
ReturnTuples ==
    /\ pc = "return"
    /\ IF namelist_tuples.bound
       THEN pc' = "returned" /\ UNCHANGED exc
       ELSE pc' = "raised" /\ exc' = "UnboundLocalError"
    /\ UNCHANGED <<dbVars, lines, flVars, dvVars, namelist, namelist_data, code_lines,
                   assignment_lines, pair, this_type, names, genVars>>

NextGen ==
    \/ OpenDefineFile
    \/ ReadDefineFile
    \/ ScanCodeLines
    \/ ParsePair
    \/ EndDefineFile
    \/ OpenDefaultFile
    \/ MergeLine
    \/ EndDefaultFile
    \/ ReturnTuples

(***************************************************************************)
(* generate_language_data run on the files of one mesa_dir.                *)
(***************************************************************************)
\* The lines of the files of the base installation: "integer :: n";
\* "real(dp) :: x"; "logical :: f", "contains"; "logical :: p"; "n = 2";
\* "! ### x", "x = 1.5", "w = 3"; "p = .true."
BaseLines(f) ==
    CASE f = "star_job_controls.inc" ->
           <<<<"i", "n", "t", "e", "g", "e", "r", " ", ":", ":", " ", "n", "\n">>>>
      [] f = "star_controls.inc" ->
           <<<<"r", "e", "a", "l", "(", "d", "p", ")", " ", ":", ":", " ", "x", "\n">>>>
      [] f = "ctrls_io.f90" ->
           <<<<"l", "o", "g", "i", "c", "a", "l", " ", ":", ":", " ", "f", "\n">>,
             <<"c", "o", "n", "t", "a", "i", "n", "s", "\n">>>>
      [] f = "pgstar_controls.inc" ->
           <<<<"l", "o", "g", "i", "c", "a", "l", " ", ":", ":", " ", "p", "\n">>>>
      [] f = "star_job.defaults" ->
           <<<<"n", " ", "=", " ", "2", "\n">>>>
      [] f = "controls.defaults" ->
           <<<<"!", " ", "#", "#", "#", " ", "x", "\n">>,
             <<"x", " ", "=", " ", "1", ".", "5", "\n">>,
             <<"w", " ", "=", " ", "3", "\n">>>>
      [] f = "pgstar.defaults" ->
           <<<<"p", " ", "=", " ", ".", "t", "r", "u", "e", ".", "\n">>>>

\* the base installation with the files of S missing
BaseWithout(S) == [f \in FileNames |-> IF f \in S THEN Missing ELSE File(BaseLines(f))]

\* the base installation with the file f holding the lines ls
BaseWith(f, ls) == [g \in FileNames |-> IF g = f THEN File(ls) ELSE File(BaseLines(g))]

\* every subset of the files missing
MissingSystems == {BaseWithout(S) : S \in SUBSET FileNames}

\* controls.defaults names a parameter of another namelist: "x = 1.5", "N = 7";
\* "n = 7"; "P = 1"
CollidingDefaults ==
    { <<<<"x", " ", "=", " ", "1", ".", "5", "\n">>,
        <<"N", " ", "=", " ", "7", "\n">>>>,
      <<<<"n", " ", "=", " ", "7", "\n">>>>,
      <<<<"P", " ", "=", " ", "1", "\n">>>> }

CollisionSystems == {BaseWith("controls.defaults", ls) : ls \in CollidingDefaults}

\* a definitions file whose last line ends with the continuation marker:
\* "integer :: m, &"
malformed_lines == <<<<"i", "n", "t", "e", "g", "e", "r", " ", ":", ":", " ", "m", ",", " ", "&", "\n">>>>

DefineFileNames ==
    {"star_job_controls.inc", "star_controls.inc", "ctrls_io.f90", "pgstar_controls.inc"}

MalformedSystems == {BaseWith(f, malformed_lines) : f \in DefineFileNames}

mixing_length_alpha ==
    <<"m", "i", "x", "i", "n", "g", "_", "l", "e", "n", "g", "t", "h", "_", "a", "l", "p",
      "h", "a">>

\* "real(dp) :: mixing_length_alpha"
mixing_declaration == DeclLine(real_dp, mixing_length_alpha)

\* "mixing_length_alpha = 2.0d0 ! doc above"
mixing_default ==
    mixing_length_alpha \o <<" ", "=", " ", "2", ".", "0", "d", "0", " ", "!", " ", "d", "o", "c", " ", "a", "b", "o", "v", "e", "\n">>

\* the header lines "! ###mixing_length_alpha" and
\* "      ! ### mixing_length_alpha"
MixingHeaders ==
    { <<"!", " ", "#", "#", "#">> \o mixing_length_alpha \o <<"\n">>,
      <<" ", " ", " ", " ", " ", " ", "!", " ", "#", "#", "#", " ">>
          \o mixing_length_alpha \o <<"\n">> }

\* the comment lines between header and assignment: none, or
\* "      ! the mixing length"
MixingBodies ==
    { <<>>,
      <<<<" ", " ", " ", " ", " ", " ", "!", " ", "t", "h", "e", " ", "m", "i", "x", "i", "n", "g", " ", "l", "e", "n", "g", "t", "h", "\n">>>> }

\* the two sources of the scenario in the namelist nl, the other files as in
\* the base installation (others) or missing
MixingSystem(nl, header, body, others) ==
    [f \in FileNames |->
        IF f = define_files(nl)[1] THEN File(<<mixing_declaration>>)
        ELSE IF f = default_files(nl) THEN File(<<header>> \o body \o <<mixing_default>>)
        ELSE IF others THEN File(BaseLines(f))
        ELSE Missing]

MixingSystems ==
    {MixingSystem(namelists[k], h, b, o) :
        k \in 1..Len(namelists), h \in MixingHeaders, b \in MixingBodies, o \in BOOLEAN}

\* controls.defaults with a line without '=' ("z") or with a value that is
\* no literal ("x = d"), and star_controls.inc with a line of two '::'
\* ("real :: a :: b")
FaultySystems ==
    { BaseWith("controls.defaults", <<<<"z", "\n">>>>),
      BaseWith("controls.defaults", <<<<"x", " ", "=", " ", "d", "\n">>>>),
      BaseWith("star_controls.inc",
               <<<<"r", "e", "a", "l", " ", ":", ":", " ", "a", " ", ":", ":", " ", "b", "\n">>>>) }

FileSystems ==
    MissingSystems \cup CollisionSystems \cup MalformedSystems \cup MixingSystems
        \cup FaultySystems

InitGen ==
    /\ pc = "files"
    /\ fs \in FileSystems
    /\ lines = <<>>
    /\ IdleFL
    /\ IdleDV
    /\ IdleDb
    /\ namelist = namelists[1]
    /\ namelist_data = <<>>
    /\ code_lines = <<>>
    /\ assignment_lines = <<>>
    /\ pair = 1
    /\ this_type = <<>>
    /\ names = <<>>
    /\ exc = "none"
    /\ define_file = 1
    /\ lower_names = <<>>
    /\ order = 0
    /\ assign_name = <<>>
    /\ doc = <<>>
    /\ namelist_tuples = Unbound
    /\ start_data = <<>>
    /\ first_result = <<>>
    /\ run = 1

SpecGen == InitGen /\ [][NextGen]_vars

(***************************************************************************)
(* C16 - C19: generate_language_data                                       *)
(***************************************************************************)
\* C16: a default-defining line of the defaults source of the namelist being
\* merged updates or appends only records of that namelist: a record of
\* another namelist is left unchanged, also when its name coincides
\* case-insensitively, and an appended record belongs to the namelist.
C16_MergeTouchesOwnGroupOnly ==
    [][AtDefaultsLine =>
          /\ Len(namelist_data') >= Len(namelist_data)
          /\ \A j \in 1..Len(namelist_data) :
                namelist_data[j].namelist # namelist => namelist_data'[j] = namelist_data[j]
          /\ \A j \in (Len(namelist_data) + 1)..Len(namelist_data') :
                namelist_data'[j].namelist = namelist]_vars

\* the output holds the tuple of every record made, in order
OutputHoldsAllRecords ==
    /\ namelist_tuples.bound
    /\ namelist_tuples.tuples = [k \in 1..Len(namelist_data) |-> to_tuple(namelist_data[k])]

\* C17: whichever files are missing, generate_language_data completes (it
\* raises nothing) and what it returns contains every record made for every
\* namelist, those declared for a namelist whose defaults file is missing
\* included.
C17_MissingFilesLoseNothing ==
    fs \in MissingSystems =>
        /\ pc # "raised"
        /\ pc = "returned" => OutputHoldsAllRecords

\* the name the base installation declares in a definitions file
BaseName(f) ==
    CASE f = "star_job_controls.inc" -> <<"n">>
      [] f = "star_controls.inc" -> <<"x">>
      [] f = "ctrls_io.f90" -> <<"f">>
      [] f = "pgstar_controls.inc" -> <<"p">>

\* C18: a continuation marker on the last line of one definitions file ends
\* the parsing of that file only: the run raises nothing, and the names the
\* other definitions files declare are in what it returns.
C18_MalformedFileOnly ==
    fs \in MalformedSystems =>
        /\ pc # "raised"
        /\ pc = "returned" =>
              \A f \in DefineFileNames :
                  fs[f].lines # malformed_lines =>
                      \E k \in 1..Len(namelist_tuples.tuples) :
                          namelist_tuples.tuples[k][1] = BaseName(f)

\* the namelist whose sources hold the scenario
MixingNamelist ==
    CHOOSE nl \in {namelists[k] : k \in 1..Len(namelists)} :
        fs[define_files(nl)[1]] = File(<<mixing_declaration>>)

\* the header block of the scenario: the lines before the assignment, trimmed
MixingBlock ==
    LET ls == fs[default_files(MixingNamelist)].lines
    IN [k \in 1..(Len(ls) - 1) |-> Strip(ls[k])]

\* C19: a definitions source declaring "real(dp) :: mixing_length_alpha" and
\* a defaults source with a '###mixing_length_alpha' header comment followed
\* by "mixing_length_alpha = 2.0d0 ! ..." give exactly one record of that
\* name: dtype float, default 2.0, dim 0, order 0, doc the header block.
C19_EndToEnd ==
    fs \in MixingSystems =>
        /\ pc # "raised"
        /\ pc = "returned" =>
              /\ Cardinality(RecordsNamed(namelist_data, mixing_length_alpha)) = 1
              /\ \A j \in RecordsNamed(namelist_data, mixing_length_alpha) :
                    /\ namelist_data[j].name = mixing_length_alpha
                    /\ namelist_data[j].dtype = "float"
                    /\ namelist_data[j].default = DvFloat(<<2, 0>>)
                    /\ namelist_data[j].dim = 0
                    /\ namelist_data[j].order = 0
                    /\ namelist_data[j].namelist = MixingNamelist
                    /\ TrimmedLines(namelist_data[j].doc) = MixingBlock
                    /\ j <= Len(namelist_tuples.tuples)
                    /\ namelist_tuples.tuples[j]
                           = <<mixing_length_alpha, mixing_length_alpha, "float",
                               <<"2", ".", "0">>, 0, 0, MixingNamelist, namelist_data[j].doc>>
              /\ Cardinality({k \in 1..Len(namelist_tuples.tuples) :
                                 namelist_tuples.tuples[k][1] = mixing_length_alpha}) = 1

\* the scenario has run to its end in the namelist controls, with a comment
\* line in the header block, and its record is in what was returned
C19_Witness ==
    /\ pc = "returned"
    /\ fs \in MixingSystems
    /\ MixingNamelist = "controls"
    /\ Len(MixingBlock) = 2
    /\ \E k \in 1..Len(namelist_tuples.tuples) :
          /\ namelist_tuples.tuples[k][1] = mixing_length_alpha
          /\ namelist_tuples.tuples[k][4] = <<"2", ".", "0">>
          /\ namelist_tuples.tuples[k][6] = 0

(***************************************************************************)
(* C26, C27: the walk of full_lines and the two return forms of full_line  *)
(***************************************************************************)
\* C27: full_line called with return_count=False returns a string, the same
\* string that return_count=True returns as its first component, for a line
\* that is continued and for a line that is not.
C27_StringForEitherFlag ==
    (pc = "called" /\ ret.raised = "none")
        => /\ ret.shape = "str"
           /\ ret.line = full_line(lines, i, TRUE, 1, FALSE).line

\* full_lines runs to its end once called: the while loop of lines 139-142 and
\* the return of line 150 are steps of one sequential call.
SpecFLFair ==
    /\ InitFL
    /\ [][NextFL]_vars
    /\ WF_vars(FullLinesStep)
    /\ WF_vars(FullLinesReturn)

\* the last physical line does not end with the continuation marker
LastLineUnmarked == ~EndsWithAmp(lines[Len(lines)])

RECURSIVE UnmarkedUpTo(_, _)
\* the number of lines among the first k that do not end with the marker
UnmarkedUpTo(ls, k) ==
    IF k = 0 THEN 0
    ELSE UnmarkedUpTo(ls, k - 1) + (IF EndsWithAmp(ls[k]) THEN 0 ELSE 1)

\* where the j-th logical line starts: after the (j-1)-th unmarked line
SegmentStart(ls, j) ==
    IF j = 1 THEN 1
    ELSE 1 + CHOOSE k \in 1..Len(ls) :
                 ~EndsWithAmp(ls[k]) /\ UnmarkedUpTo(ls, k) = j - 1

\* During the walk the lines before i are exactly the lines of the logical
\* lines built so far: one logical line per unmarked line, each starting right
\* after the previous one ended, in file order.
C26_Partition ==
    LastLineUnmarked
        => /\ pc # "raised"
           /\ pc = "walk"
                => /\ i \in 2..(Len(lines) + 1)
                   /\ ~EndsWithAmp(lines[i - 1])
                   /\ Len(res) = UnmarkedUpTo(lines, i - 1)
                   /\ \A j \in 1..Len(res) :
                         res[j] = full_line(lines, SegmentStart(lines, j),
                                            TRUE, 1, FALSE).line

\* A step of the walk advances the index by the count it consumed, at least 1.
C26_StepAdvances ==
    (LastLineUnmarked /\ pc' = "walk")
        => /\ i' >= i + 1
           /\ i' = i + ret'.count
           /\ Len(res') = Len(res) + 1

\* The walk ends, with every physical line consumed.
C26_Terminates ==
    (LastLineUnmarked /\ pc = "walk")
        ~> (pc = "returned" /\ i = Len(lines) + 1)

\* C26: for every list of lines whose last line does not end with the marker,
\* the walk of full_lines terminates, each step advances the index by at least
\* one, the consumed counts sum to the number of physical lines, every physical
\* line belongs to exactly one logical line, in file order, and there are as
\* many logical lines (before filtering) as lines that do not end with the marker.
C26_WalkConsumesEveryLine ==
    /\ []C26_Partition
    /\ [][C26_StepAdvances]_vars
    /\ C26_Terminates

\* a walk that ended after joining a continued line and keeping another apart
C26_Witness ==
    /\ LastLineUnmarked
    /\ pc = "walk"
    /\ i = Len(lines) + 1
    /\ Len(res) = 2
    /\ Len(lines) = 3

(***************************************************************************)
(* C25: the lower_name is a key within a group                             *)
(***************************************************************************)
\* no two records of the group nl share a lower_name
DistinctLowerNames(data, nl) ==
    \A a, b \in 1..Len(data) :
        (a # b /\ data[a].namelist = nl /\ data[b].namelist = nl)
            => data[a].lower_name # data[b].lower_name

\* C25: after a group's defaults merge no two records of the group share a
\* lower_name, provided the definitions declared each name once; several
\* defining lines naming one undeclared parameter update one record.
C25_LowerNameIsKey ==
    (pc = "merged" /\ DistinctLowerNames(start_data, namelist))
        => DistinctLowerNames(namelist_data, namelist)

(***************************************************************************)
(* NamelistItem.from_tuple and the round trip of the output tuples         *)
(***************************************************************************)
\* dtype_funcs['int'](s), line 107: int(s) for a str. Surrounding whitespace
\* is dropped; then [sign] digits gives the number and anything else raises
\* ValueError ('_' between digits is not in the model's alphabet).
IntOfStr(s0) ==
    LET s == Strip(s0)
        signed == Len(s) >= 1 /\ s[1] \in {"+", "-"}
        ds == IF signed THEN Tail(s) ELSE s
    IN IF Len(ds) >= 1 /\ \A p \in 1..Len(ds) : ds[p] \in Digits
       THEN DvInt(IF signed /\ s[1] = "-" THEN 0 - DecimalValue(ds) ELSE DecimalValue(ds))
       ELSE DvRaise("int", "ValueError")

\* lines 13-18 and 107: dtype_funcs[dtype](default) for a str default
dtype_funcs(dtype, default) ==
    CASE dtype = "str" -> DvStr(default)
      [] dtype = "int" -> IntOfStr(default)
      [] dtype = "float" -> float(default)
      [] OTHER -> DvRaise(dtype, "KeyError")

\* line 114: cls(name, dtype, default, dim, order, namelist, doc) from the
\* fields of lines 93-99, with what the cast of the default came to
FromFields(tup, default) ==
    [raised |-> default.raised,
     item |-> [name |-> tup[1], lower_name |-> Lower(tup[1]), dtype |-> tup[3],
               default |-> default, dim |-> tup[5], order |-> tup[6],
               namelist |-> tup[7], doc |-> tup[8]]]

\* NamelistItem.from_tuple, lines 90-114, for a tuple of eight fields: what it
\* raised, and the item it returned when it raised nothing.
from_tuple(tup) ==
    FromFields(tup, IF tup[3] = "bool"
                    THEN DvBool(tup[4] # <<"F", "a", "l", "s", "e">>)
                    ELSE dtype_funcs(tup[3], tup[4]))

(***************************************************************************)
(* C21: the output tuple round-trips                                       *)
(***************************************************************************)
\* the number a bool, int or float default stands for, as a normalised pair
NumberOf(d) ==
    CASE d.dtype = "bool" -> Normal(IF d.b THEN 1 ELSE 0, 0)
      [] d.dtype = "int" -> Normal(d.n, 0)
      [] d.dtype = "float" -> d.f

\* Python's a == b for two defaults: numbers compare by value across bool,
\* int and float, a str equals only an equal str
SameDefault(a, b) ==
    IF a.dtype = "str" \/ b.dtype = "str"
    THEN a.dtype = b.dtype /\ a.s = b.s
    ELSE NumberOf(a) = NumberOf(b)

\* from_tuple(r.to_tuple()) succeeds and gives back r's seven fields
RoundTrips(r) ==
    LET back == from_tuple(to_tuple(r))
    IN /\ back.raised = "none"
       /\ back.item.name = r.name
       /\ back.item.dtype = r.dtype
       /\ SameDefault(back.item.default, r.default)
       /\ back.item.dim = r.dim
       /\ back.item.order = r.order
       /\ back.item.namelist = r.namelist
       /\ back.item.doc = r.doc

\* C21: every record the pipeline produced round-trips through its output
\* tuple, and the tuple of a bool record holds the word True or False.
C21_TupleRoundTrips ==
    (pc = "merged")
        => \A k \in 1..Len(namelist_data) :
              /\ RoundTrips(namelist_data[k])
              /\ namelist_data[k].dtype = "bool"
                    => namelist_tuples.tuples[k][4]
                          \in {<<"T", "r", "u", "e">>, <<"F", "a", "l", "s", "e">>}

(***************************************************************************)
(* The catalog database: make_database stores the output tuples in the     *)
(* table inlist_items; MesaDatabase, InlistDbHandler and CLI_Instance read *)
(* it through a sqlite cursor.                                             *)
(***************************************************************************)
MaxRows == 3
MaxCalls == 2

\* the words the model keeps whole, spelled out as sqlite stores them
Chars(w) ==
    CASE w = "controls" -> <<"c", "o", "n", "t", "r", "o", "l", "s">>
      [] w = "star_job" -> <<"s", "t", "a", "r", "_", "j", "o", "b">>
      [] w = "pgstar" -> <<"p", "g", "s", "t", "a", "r">>
      [] w = "bool" -> <<"b", "o", "o", "l">>
      [] w = "str" -> <<"s", "t", "r">>
      [] w = "int" -> <<"i", "n", "t">>
      [] w = "float" -> <<"f", "l", "o", "a", "t">>

RECURSIVE LikeFrom(_, _, _, _)
\* whether s from position b on matches the pattern p from position a on
LikeFrom(p, s, a, b) ==
    IF a > Len(p) THEN b > Len(s)
    ELSE IF p[a] = "%"
    THEN \E k \in b..(Len(s) + 1) : LikeFrom(p, s, a + 1, k)
    ELSE /\ b <= Len(s)
         /\ (p[a] = "_" \/ LowerChar(p[a]) = LowerChar(s[b]))
         /\ LikeFrom(p, s, a + 1, b + 1)

\* sqlite's  s LIKE p : '%' stands for any run of characters, '_' for any one
\* character, and letters match without regard to case
Like(p, s) == LikeFrom(p, s, 1, 1)

RECURSIVE PlaceholdersFrom(_, _, _)
\* the parameters sqlite finds in a statement: each '?' outside a '...' literal
PlaceholdersFrom(q, p, quoted) ==
    IF p > Len(q) THEN 0
    ELSE IF q[p] = "'" THEN PlaceholdersFrom(q, p + 1, ~quoted)
    ELSE (IF q[p] = "?" /\ ~quoted THEN 1 ELSE 0) + PlaceholdersFrom(q, p + 1, quoted)

Placeholders(q) == PlaceholdersFrom(q, 1, FALSE)

\* the WHERE clauses the interface sends (lines 604, 626, 629, 653, 656) and
\* one that holds a '?' inside a literal
lower_name_eq == <<"l", "o", "w", "e", "r", "_", "n", "a", "m", "e", "=", "?">>
lower_name_like == <<"l", "o", "w", "e", "r", "_", "n", "a", "m", "e", " ", "L", "I", "K", "E", " ", "?">>
lower_name_like_namelist == <<"l", "o", "w", "e", "r", "_", "n", "a", "m", "e", " ", "L", "I", "K", "E", " ", "?", " ", "A", "N", "D", " ", "n", "a", "m", "e", "l", "i", "s", "t", "=", "?">>
doc_like == <<"d", "o", "c", " ", "L", "I", "K", "E", " ", "?">>
doc_like_namelist == <<"d", "o", "c", " ", "L", "I", "K", "E", " ", "?", " ", "A", "N", "D", " ", "n", "a", "m", "e", "l", "i", "s", "t", "=", "?">>
name_eq_literal == <<"n", "a", "m", "e", "=", "'", "?", "'">>

\* the clauses a client sends to MesaDatabase.search directly
Queries == {lower_name_eq, lower_name_like_namelist, name_eq_literal}

\* whether a row of inlist_items satisfies the WHERE clause with its
\* parameters bound in order; the text columns compare case-sensitively
Where(query, terms, row) ==
    CASE query = lower_name_eq -> row[2] = terms[1]
      [] query = lower_name_like -> Like(terms[1], row[2])
      [] query = lower_name_like_namelist ->
            Like(terms[1], row[2]) /\ Chars(row[7]) = terms[2]
      [] query = doc_like -> Like(terms[1], row[8])
      [] query = doc_like_namelist ->
            Like(terms[1], row[8]) /\ Chars(row[7]) = terms[2]
      [] query = name_eq_literal -> row[1] = <<"?">>

\* cursor.execute of line 494 with the binding check left out
execute_Unchecked(cur, rows, table, query, terms) ==
    [raised |-> "none",
     cursor |-> [cur EXCEPT !.executed = @ + 1,
                            !.pending = IF Placeholders(query) = Len(terms)
                                        THEN SelectSeq(rows, LAMBDA r : Where(query, terms, r))
                                        ELSE rows]]

\* lines 494-495: cursor.execute("SELECT * FROM {} WHERE {}".format(table,
\* query), terms), for the table inlist_items. sqlite refuses a wrong number
\* of bindings with ProgrammingError, dropping the rows still pending, and
\* only otherwise runs the statement.
execute(cur, rows, table, query, terms) ==
    IF Placeholders(query) # Len(terms)
    THEN [raised |-> "ProgrammingError", cursor |-> [cur EXCEPT !.pending = <<>>]]
    ELSE [raised |-> "none",
          cursor |-> [cur EXCEPT !.executed = @ + 1,
                                 !.pending = SelectSeq(rows, LAMBDA r : Where(query, terms, r))]]

\* MesaDatabase.search, lines 489-495: _ensure_connection (lines 537-549),
\* the assert of line 490, which python -O leaves out, and the execute
search(d, cur, table, query, terms) ==
    IF ~cur.connected /\ ~d.mesa_db
    THEN [raised |-> "InvalidDatabaseError", cursor |-> cur]
    ELSE LET connected == [cur EXCEPT !.connected = TRUE]
         IN IF d.debug /\ CountChar(query, "?") # Len(terms)
            THEN [raised |-> "AssertionError", cursor |-> connected]
            ELSE execute(connected, d.inlist_items, table, query, terms)

\* line 515: self.cursor.fetchone() after the search of line 514 came to s:
\* the first pending row, or None (no row)
fetchone(s) ==
    IF s.raised # "none" \/ Len(s.cursor.pending) = 0
    THEN [raised |-> s.raised, cursor |-> s.cursor, rows |-> <<>>]
    ELSE [raised |-> "none", cursor |-> [s.cursor EXCEPT !.pending = Tail(@)],
          rows |-> <<Head(s.cursor.pending)>>]

\* line 535: self.cursor.fetchall() after the search of line 534 came to s
fetchall(s) ==
    IF s.raised # "none"
    THEN [raised |-> s.raised, cursor |-> s.cursor, rows |-> <<>>]
    ELSE [raised |-> "none", cursor |-> [s.cursor EXCEPT !.pending = <<>>],
          rows |-> s.cursor.pending]

RECURSIVE FromTuplesFrom(_, _, _)
RECURSIVE NextItem(_, _, _, _)
\* the comprehension from row k on, with the items made so far
FromTuplesFrom(rows, k, items) ==
    IF k > Len(rows) THEN [raised |-> "none", items |-> items]
    ELSE NextItem(rows, k, items, from_tuple(rows[k]))

\* one pass of the comprehension: made is from_tuple of row k
NextItem(rows, k, items, made) ==
    IF made.raised # "none" THEN [raised |-> made.raised, items |-> <<>>]
    ELSE FromTuplesFrom(rows, k + 1, items \o <<made.item>>)

\* [NamelistItem.from_tuple(item) for item in rows], lines 630 and 657: the
\* first row that from_tuple raises on ends the comprehension
FromTuples(rows) == FromTuplesFrom(rows, 1, <<>>)

\* NamelistItem.from_tuple of what fetchone() gave: tup[0] of None (line 93)
\* raises TypeError
FromFetched(rows) ==
    IF Len(rows) = 0 THEN [raised |-> "TypeError", items |-> <<>>]
    ELSE FromTuples(rows)

\* what a handler call comes to: the search's exception, or else what
\* from_tuple raised or made of the fetched rows f
Handled(f, t) ==
    IF f.raised # "none" THEN [raised |-> f.raised, items |-> <<>>]
    ELSE [raised |-> t.raised, items |-> t.items]

\* '%{}%'.format(term), lines 623 and 650
search_pattern(term) == <<"%">> \o term \o <<"%">>

\* lines 624-629 and 651-656: the injection for a pattern and a namelist
Injection(pattern, nl) ==
    IF nl = "None" THEN <<pattern>> ELSE <<Chars(nl), pattern>>

\* lines 626, 629: the query of search_namelist_name
NameQuery(nl) == IF nl = "None" THEN lower_name_like ELSE lower_name_like_namelist

\* lines 653, 656: the query of search_doc
DocQuery(nl) == IF nl = "None" THEN doc_like ELSE doc_like_namelist

\* cli_tools.py lines 96-100 and 20-25: the data property makes the cursor on
\* first use from inlist_commands.db, NoDatabaseError when the file is not
\* there; lines 29-30 then execute on it
cli_execute(d, cur, query, terms) ==
    IF ~cur.connected /\ ~d.inlist_commands_db
    THEN [raised |-> "NoDatabaseError", cursor |-> cur]
    ELSE execute([cur EXCEPT !.connected = TRUE], d.inlist_items, "inlist_items",
                 query, terms)

(***************************************************************************)
(* The interface as a state machine: a table of output tuples is stored;   *)
(* a client calls MesaDatabase and InlistDbHandler, or CLI_Instance.       *)
(***************************************************************************)
\* records of the pipeline: Alpha of controls, alpha of star_job, a_b and axb
\* of controls
SampleItems ==
    << NamelistItem(<<"A", "l", "p", "h", "a">>, "int", DvInt(2), 0, 0, "controls", <<"L", "e", "n", "g", "t", "h">>),
       NamelistItem(<<"a", "l", "p", "h", "a">>, "bool", DvBool(TRUE), 0, 0, "star_job", <<"f", "l", "a", "g">>),
       NamelistItem(<<"a", "_", "b">>, "int", DvInt(0 - 1), 0, 1, "controls", <<"l", "e", "n">>),
       NamelistItem(<<"a", "x", "b">>, "str", DvStr(<<"'", "x", "'">>), 0, 2, "controls", <<>>) >>

RECURSIVE SubSeqsOf(_)
\* the subsequences of a sequence
SubSeqsOf(s) ==
    IF Len(s) = 0 THEN {<<>>}
    ELSE LET r == SubSeqsOf(Tail(s)) IN r \cup {<<Head(s)>> \o t : t \in r}

RECURSIVE Rows(_)
\* line 430: the rows make_database inserts, item.to_tuple() of each record
Rows(items) ==
    IF Len(items) = 0 THEN <<>>
    ELSE <<to_tuple(Head(items))>> \o Rows(Tail(items))

Tables == {Rows(t) : t \in {u \in SubSeqsOf(SampleItems) : Len(u) <= MaxRows}}

LookupNames == {<<"A", "L", "P", "H", "A">>, <<"a", "_", "b">>, <<"z", "z">>}
SearchTerms == {<<"A", "l", "p", "h", "a">>, <<"a", "_", "b">>, <<"l", "e", "n">>}
Scopes == {"None", "controls", "star_job"}
TermTuples == {<<>>, <<<<"a", "l", "p", "h", "a">>>>, <<<<"%", "a", "%">>, <<"c", "o", "n", "t", "r", "o", "l", "s">>>>}

InitDb ==
    /\ pc = "db"
    /\ lines = <<>>
    /\ IdleFL
    /\ IdleDV
    /\ IdleDecl
    /\ IdleGen
    /\ db \in [mesa_db : BOOLEAN, inlist_commands_db : BOOLEAN, debug : BOOLEAN,
               inlist_items : Tables]
    /\ cursor = NoCursor
    /\ call = NoCall

\* the client uses MesaDatabase (with InlistDbHandler), whose cursor this is
UsesMesaDatabase == call.op # "find_item"

\* a direct call of MesaDatabase.search, search_for_one or search_for_many
Search ==
    /\ pc = "db"
    /\ call.count < MaxCalls
    /\ UsesMesaDatabase
    /\ \E op \in {"search", "search_for_one", "search_for_many"},
          query \in Queries, terms \in TermTuples :
          \E s \in {search(db, cursor, "inlist_items", query, terms)} :
          \E f \in {IF op = "search_for_one" THEN fetchone(s)
                     ELSE IF op = "search_for_many" THEN fetchall(s)
                     ELSE [raised |-> s.raised, cursor |-> s.cursor, rows |-> <<>>]} :
             /\ cursor' = f.cursor
             /\ call' = [count |-> call.count + 1, op |-> op, table |-> "inlist_items",
                         query |-> query, terms |-> terms, name |-> <<>>,
                         namelist |-> "None", raised |-> f.raised, result |-> f.rows]
    /\ UNCHANGED <<pc, lines, flVars, dvVars, declVars, genVars, db>>

\* InlistDbHandler.find_namelist_item(name), lines 602-604; doc, default,
\* dtype, namelist and summary (lines 672-736) read a field of what it returns
FindNamelistItem ==
    /\ pc = "db"
    /\ call.count < MaxCalls
    /\ UsesMesaDatabase
    /\ \E name \in LookupNames :
          \E injection \in {<<Lower(name)>>} :
          \E s \in {search(db, cursor, "inlist_items", lower_name_eq, injection)} :
          \E f \in {fetchone(s)} :
          \E t \in {FromFetched(f.rows)} :
          \E r \in {Handled(f, t)} :
             /\ cursor' = f.cursor
             /\ call' = [count |-> call.count + 1, op |-> "find_namelist_item",
                         table |-> "inlist_items", query |-> lower_name_eq,
                         terms |-> injection, name |-> name, namelist |-> "None",
                         raised |-> r.raised, result |-> r.items]
    /\ UNCHANGED <<pc, lines, flVars, dvVars, declVars, genVars, db>>

\* InlistDbHandler.search_namelist_name(name, namelist), lines 623-631
SearchNamelistName ==
    /\ pc = "db"
    /\ call.count < MaxCalls
    /\ UsesMesaDatabase
    /\ \E name \in SearchTerms, nl \in Scopes :
          \E injection \in {Injection(search_pattern(Lower(name)), nl)} :
          \E s \in {search(db, cursor, "inlist_items", NameQuery(nl), injection)} :
          \E f \in {fetchall(s)} :
          \E t \in {FromTuples(f.rows)} :
          \E r \in {Handled(f, t)} :
             /\ cursor' = f.cursor
             /\ call' = [count |-> call.count + 1, op |-> "search_namelist_name",
                         table |-> "inlist_items", query |-> NameQuery(nl),
                         terms |-> injection, name |-> name, namelist |-> nl,
                         raised |-> r.raised, result |-> r.items]
    /\ UNCHANGED <<pc, lines, flVars, dvVars, declVars, genVars, db>>

\* InlistDbHandler.search_doc(term, namelist), lines 650-658
SearchDoc ==
    /\ pc = "db"
    /\ call.count < MaxCalls
    /\ UsesMesaDatabase
    /\ \E term \in SearchTerms, nl \in Scopes :
          \E injection \in {Injection(search_pattern(term), nl)} :
          \E s \in {search(db, cursor, "inlist_items", DocQuery(nl), injection)} :
          \E f \in {fetchall(s)} :
          \E t \in {FromTuples(f.rows)} :
          \E r \in {Handled(f, t)} :
             /\ cursor' = f.cursor
             /\ call' = [count |-> call.count + 1, op |-> "search_doc",
                         table |-> "inlist_items", query |-> DocQuery(nl),
                         terms |-> injection, name |-> term, namelist |-> nl,
                         raised |-> r.raised, result |-> r.items]
    /\ UNCHANGED <<pc, lines, flVars, dvVars, declVars, genVars, db>>

\* CLI_Instance.find_item(name), cli_tools.py lines 27-31; doc, default, dtype,
\* namelist and summary of cli_tools.py (lines 63-82) read a field of what it
\* returns
CliFindItem ==
    /\ pc = "db"
    /\ call.count < MaxCalls
    /\ call.op \in {"none", "find_item"}
    /\ \E name \in LookupNames :
          \E select_by \in {<<Lower(name)>>} :
          \E s \in {cli_execute(db, cursor, lower_name_eq, select_by)} :
          \E f \in {fetchone(s)} :
          \E t \in {FromFetched(f.rows)} :
          \E r \in {Handled(f, t)} :
             /\ cursor' = f.cursor
             /\ call' = [count |-> call.count + 1, op |-> "find_item",
                         table |-> "inlist_items", query |-> lower_name_eq,
                         terms |-> select_by, name |-> name, namelist |-> "None",
                         raised |-> r.raised, result |-> r.items]
    /\ UNCHANGED <<pc, lines, flVars, dvVars, declVars, genVars, db>>

NextDb ==
    \/ Search
    \/ FindNamelistItem
    \/ SearchNamelistName
    \/ SearchDoc
    \/ CliFindItem

SpecDb == InitDb /\ [][NextDb]_vars

(***************************************************************************)
(* C22: a search scoped to one group                                       *)
(***************************************************************************)
\* the catalog of the client that made the call can be opened
CatalogAvailable ==
    IF call.op = "find_item" THEN db.inlist_commands_db ELSE db.mesa_db

\* the stored rows of group nl whose column col holds the term
ClaimedRows(col, term, nl) ==
    {k \in 1..Len(db.inlist_items) :
        /\ db.inlist_items[k][7] = nl
        /\ HasSub(db.inlist_items[k][col], term)}

\* the name and group of each item of that kind
NamesOf(items) == {<<items[k].name, items[k].namelist>> : k \in 1..Len(items)}

\* C22: a search scoped to one group returns exactly the stored items of that
\* group whose lower-cased name (search_namelist_name) or documentation text
\* (search_doc) contains the search term.
C22_ScopedSearchExact ==
    (call.op \in {"search_namelist_name", "search_doc"}
     /\ call.namelist # "None" /\ CatalogAvailable)
        => /\ call.raised = "none"
           /\ NamesOf(call.result)
                 = {<<db.inlist_items[k][1], db.inlist_items[k][7]>> :
                       k \in IF call.op = "search_doc"
                             THEN ClaimedRows(8, call.name, call.namelist)
                             ELSE ClaimedRows(2, Lower(call.name), call.namelist)}

(***************************************************************************)
(* C23: placeholders and terms                                             *)
(***************************************************************************)
\* the call just made went through MesaDatabase.search with a query whose
\* number of placeholders is not the number of terms
MismatchedCall ==
    /\ call'.count = call.count + 1
    /\ call'.op # "find_item"
    /\ Placeholders(call'.query) # Len(call'.terms)

\* C23: MesaDatabase.search, and search_for_one / search_for_many through it,
\* never executes a query whose number of '?' placeholders differs from the
\* number of supplied terms: the call is rejected with an error and no
\* statement is run on the cursor.
C23_MismatchRejected ==
    [][MismatchedCall
          => /\ call'.raised \in {"AssertionError", "ProgrammingError",
                                  "InvalidDatabaseError"}
             /\ cursor'.executed = cursor.executed]_vars

\* a mismatched query refused on a cursor that had run a statement before
C23_Witness ==
    /\ call.count = 2
    /\ call.op \in {"search", "search_for_one", "search_for_many"}
    /\ Placeholders(call.query) # Len(call.terms)
    /\ call.raised = "AssertionError"
    /\ cursor.executed = 1

(***************************************************************************)
(* C24: a lookup that finds no record                                      *)
(***************************************************************************)
\* no stored row has the lower-cased name
NoRecord(name) ==
    \A k \in 1..Len(db.inlist_items) : db.inlist_items[k][2] # Lower(name)

\* C24: an exact lookup of a name that has no record ends in the typed 'not
\* found' condition (ItemNotFoundError, cli_tools.py line 7), which is neither
\* a cast error of from_tuple nor the 'catalog unavailable' condition.
C24_TypedNotFound ==
    (call.op \in {"find_namelist_item", "find_item"}
     /\ CatalogAvailable /\ NoRecord(call.name))
        => call.raised = "ItemNotFoundError"

====
